---- MODULE Spec2Model ----
(***************************************************************************)
(* A model of the localsend-web session protocol stack: the base64url      *)
(* codec, the ClientToken generation and verification, the                 *)
(* StreamController pull interface, and the sendFiles / receiveFiles       *)
(* session over one ordered data channel.                                  *)
(*                                                                         *)
(* Byte arrays are sequences of numbers 0..255.  Strings that the code     *)
(* takes apart (base64 text, tokens) are sequences of one-character        *)
(* strings.                                                                *)
(***************************************************************************)
EXTENDS Integers, Sequences, FiniteSets, TLC

(***************************************************************************)
(* Bounds of the model.                                                    *)
(***************************************************************************)
\* number of key pairs the token harness draws from
MaxKeys == 2
\* number of distinct random nonces a side can draw
MaxNonceSeeds == 2
\* number of values the StreamController harness adds
MaxAdds == 4
\* number of iterator handles the StreamController harness creates
MaxHandles == 3
\* the largest maxTries of a PinConfig
MaxTries == 2
\* the largest number of files in a manifest
MaxFiles == 2
\* the UTF-8 length of the JSON text of a short control message
SmallJsonLen == 64
\* number of connect attempts the connection loop makes in the model
MaxAttempts == 3
\* number of peers the relay announces
MaxPeers == 2
\* number of transfer sessions that can be started in the model
MaxSessions == 2
\* the longest byte sequence the base64 harness encodes
MaxBytes == 4

\* the number of messages a peer that is another implementation sends
MaxPeerMessages == 7
\* the messages the relay delivers on one connection
MaxDelivered == 4

\* the token harness: generation, alteration and verification of one token
VARIABLE tok
\* the StreamController harness: one controller, its handles and a consumer
VARIABLE sc
\* the session: the local variables and the position of sendFiles
VARIABLE snd
\* the session: the local variables and the position of receiveFiles
VARIABLE rcv
\* the two ends of the RTCDataChannel: what each end has sent and the
\* transport has not yet delivered (its bufferedAmount), and whether the
\* end is still open
VARIABLE dataChannel
\* the dataChannelStream of each side: messages delivered and not yet read
VARIABLE stream
\* the arguments of the session: files, PIN configurations, user choices
VARIABLE env
\* what the injected callbacks and the channel have seen so far
VARIABLE obs
\* the nonce harness: one nonce exchange between an initiator and a
\* responder whose nonces have any valid length
VARIABLE hs
\* the relay connection: the position of connectionLoop, its WebSocket, and
\* store.signaling, store.client and store.peers
VARIABLE relay
\* store.session and the transfer sessions started by startSendSession and
\* acceptOffer
VARIABLE app
\* the base64 harness: a byte sequence, its encoding and the decoding of it
VARIABLE b64

sessVars == <<snd, rcv, dataChannel, stream, env, obs>>

vars == <<tok, sc, hs, snd, rcv, dataChannel, stream, env, obs, relay, app, b64>>

\* what the token harness leaves alone
notTok == <<sc, hs, sessVars, relay, app, b64>>

\* what the StreamController harness leaves alone
notSc == <<tok, hs, sessVars, relay, app, b64>>

\* what the session leaves alone
notSess == <<tok, sc, hs, relay, app, b64>>

\* what the nonce harness leaves alone
notHs == <<tok, sc, sessVars, relay, app, b64>>

\* what the relay connection leaves alone
notRelay == <<tok, sc, hs, sessVars, app, b64>>

\* what the store's sessions leave alone
notApp == <<tok, sc, hs, sessVars, relay, b64>>

\* what the base64 harness leaves alone
notB64 == <<tok, sc, hs, sessVars, relay, app>>

(***************************************************************************)
(* Generic helpers.                                                        *)
(***************************************************************************)
Last(s) == s[Len(s)]

Min(a, b) == IF a < b THEN a ELSE b

RECURSIVE Flatten(_)
Flatten(ss) == IF ss = <<>> THEN <<>> ELSE Head(ss) \o Flatten(Tail(ss))

(***************************************************************************)
(* utils/base64.ts, over the platform's btoa / atob.                       *)
(***************************************************************************)
B64Std ==
  << "A","B","C","D","E","F","G","H","I","J","K","L","M","N","O","P",
     "Q","R","S","T","U","V","W","X","Y","Z","a","b","c","d","e","f",
     "g","h","i","j","k","l","m","n","o","p","q","r","s","t","u","v",
     "w","x","y","z","0","1","2","3","4","5","6","7","8","9","+","/" >>

B64Value(c) == (CHOOSE i \in 1..64 : B64Std[i] = c) - 1

IsB64Char(c) == \E i \in 1..64 : B64Std[i] = c

\* String.prototype.replaceAll for a one-character pattern
replaceAll(s, from, to) == [i \in 1..Len(s) |-> IF s[i] = from THEN to ELSE s[i]]

\* removing every occurrence of a character: replaceAll(c, "")
removeAll(s, c) == SelectSeq(s, LAMBDA x : x # c)

\* String.prototype.padEnd(targetLength, "=")
padEnd(s, targetLength) ==
  s \o [i \in 1..(IF targetLength > Len(s) THEN targetLength - Len(s) ELSE 0) |-> "="]

\* btoa: standard base64 with padding of a binary string
btoa(b) ==
  [j \in 1..(4 * ((Len(b) + 2) \div 3)) |->
     LET g == (j - 1) \div 4
         k == (j - 1) % 4
         B(i) == IF 3 * g + i <= Len(b) THEN b[3 * g + i] ELSE 0
         x == B(1) * 65536 + B(2) * 256 + B(3)
         have == Len(b) - 3 * g
     IN IF k > have THEN "=" ELSE B64Std[((x \div (64 ^ (3 - k))) % 64) + 1]]

\* the data characters atob decodes: up to two trailing "=" are removed when
\* the length is a multiple of four (forgiving-base64 decode)
atobData(s) ==
  IF Len(s) % 4 = 0 /\ Len(s) >= 2 /\ s[Len(s)] = "=" /\ s[Len(s) - 1] = "="
    THEN SubSeq(s, 1, Len(s) - 2)
  ELSE IF Len(s) % 4 = 0 /\ Len(s) >= 1 /\ s[Len(s)] = "="
    THEN SubSeq(s, 1, Len(s) - 1)
  ELSE s

\* atob throws InvalidCharacterError
atobThrows(s) ==
  LET d == atobData(s)
  IN Len(d) % 4 = 1 \/ \E i \in 1..Len(d) : ~IsB64Char(d[i])

\* atob: each byte is eight bits of the sextet stream; the bits left over in
\* the last character (four after one byte, two after two bytes) are discarded
atob(s) ==
  LET d == atobData(s)
  IN [i \in 1..((Len(d) * 6) \div 8) |->
        LET p == 8 * (i - 1)
            q == p \div 6
            r == p % 6
            w == B64Value(d[q + 1]) * 64 + B64Value(d[q + 2])
        IN (w \div (2 ^ (4 - r))) % 256]

\* encodeBase64 as it would be if the padding were kept
encodeBase64Padded(binary) ==
  replaceAll(replaceAll(btoa(binary), "+", "-"), "/", "_")

encodeBase64(binary) ==
  replaceAll(replaceAll(removeAll(btoa(binary), "="), "+", "-"), "/", "_")

decodeBase64Padded(base64) ==
  replaceAll(replaceAll(padEnd(base64, Len(base64) + ((4 - (Len(base64) % 4)) % 4)),
                        "-", "+"), "_", "/")

decodeBase64Throws(base64) == atobThrows(decodeBase64Padded(base64))

decodeBase64(base64) == atob(decodeBase64Padded(base64))

(***************************************************************************)
(* File contents and the UTF-8 text of control messages are not spelled    *)
(* out byte by byte: such a byte array is a sequence of segments           *)
(* [src, lo, hi], the bytes lo .. hi-1 of the content src (a file, a JSON  *)
(* text), adjacent segments of one content being merged.  Every byte is    *)
(* so identified by where it comes from, and a loss, a repetition or a     *)
(* reordering shows in the value.                                          *)
(***************************************************************************)
Segment(src, lo, hi) == [src |-> src, lo |-> lo, hi |-> hi]

\* all bytes of a content of `len` bytes
contentBytes(src, len) == IF len = 0 THEN <<>> ELSE <<Segment(src, 0, len)>>

RECURSIVE byteLength(_)
byteLength(b) == IF b = <<>> THEN 0 ELSE (Head(b).hi - Head(b).lo) + byteLength(Tail(b))

\* new Uint8Array(a.length + b.length); set(a); set(b, a.length)
concatArrays(a, b) ==
  IF a = <<>> THEN b
  ELSE IF b = <<>> THEN a
  ELSE IF Last(a).src = Head(b).src /\ Last(a).hi = Head(b).lo
    THEN SubSeq(a, 1, Len(a) - 1) \o <<Segment(Last(a).src, Last(a).lo, Head(b).hi)>> \o Tail(b)
  ELSE a \o b

\* the first n bytes of b (n <= b.length)
RECURSIVE takeBytes(_, _)
takeBytes(b, n) ==
  IF n <= 0 \/ b = <<>> THEN <<>>
  ELSE LET h == Head(b)
           l == h.hi - h.lo
       IN IF l <= n THEN <<h>> \o takeBytes(Tail(b), n - l)
          ELSE <<Segment(h.src, h.lo, h.lo + n)>>

\* b without its first n bytes
RECURSIVE dropBytes(_, _)
dropBytes(b, n) ==
  IF n <= 0 \/ b = <<>> THEN b
  ELSE LET h == Head(b)
           l == h.hi - h.lo
       IN IF l <= n THEN dropBytes(Tail(b), n - l)
          ELSE <<Segment(h.src, h.lo + n, h.hi)>> \o Tail(b)

\* Uint8Array.prototype.slice(begin, end) and slice(begin)
sliceBytes(b, begin, end) == takeBytes(dropBytes(b, begin), end - begin)

sliceBytesFrom(b, begin) == dropBytes(b, begin)

\* new Blob(chunks): the chunks one after the other
RECURSIVE concatAll(_)
concatAll(chunks) ==
  IF chunks = <<>> THEN <<>> ELSE concatArrays(Head(chunks), concatAll(Tail(chunks)))

(***************************************************************************)
(* utils/nonce.ts                                                          *)
(***************************************************************************)
\* the bytes window.crypto.getRandomValues writes for random draw `seed`
randomBytes(seed, len) == [i \in 1..len |-> (seed * 37 + i * 11) % 256]

generateNonce(seed) == randomBytes(seed, 32)

\* validateNonce as it would be with the bounds excluded
validateNonceExclusive(nonce) == Len(nonce) > 16 /\ Len(nonce) < 128

validateNonce(nonce) == Len(nonce) >= 16 /\ Len(nonce) <= 128

(***************************************************************************)
(* services/crypto.ts.  WebCrypto is the platform: SHA-256 is modelled as  *)
(* collision free (the digest of x is x itself), a signature is the        *)
(* signer's key and the signed digest, and it verifies under a public key  *)
(* exactly when that key's owner made it over the same digest.             *)
(***************************************************************************)
chars_sha256 == <<"s","h","a","2","5","6">>

chars_sha512 == <<"s","h","a","5","1","2">>

cryptoParams ==
  [ed25519 |-> [identifier |-> <<"e","d","2","5","5","1","9">>],
   rsaPss  |-> [identifier |-> <<"r","s","a","-","p","s","s">>]]

\* crypto.subtle.generateKey: key pair number k
generateKeyPair(k) == [publicKey |-> k, privateKey |-> k]

\* crypto.subtle.exportKey("spki", publicKey)
exportKey(publicKey) == <<48, 42, publicKey>>

\* crypto.subtle.digest("SHA-256", data)
digestSha256(data) == data

\* crypto.subtle.sign(params, privateKey, data)
subtleSign(privateKey, data) == <<83, privateKey>> \o data

\* crypto.subtle.verify(params, publicKey, signature, data)
subtleVerify(publicKey, signature, data) == signature = <<83, publicKey>> \o data

concatBytes(arrays) == Flatten(arrays)

\* DataView.setBigUint64(0, value, true): little endian.  The model's clock
\* values are below 2^31, so the four high bytes are zero.
encodeU64(value) ==
  [i \in 1..8 |-> IF i <= 4 THEN (value \div (256 ^ (i - 1))) % 256 ELSE 0]

\* DataView.getBigUint64(0, true) yields a number of up to 64 bits; the model
\* keeps it as its eight little-endian bytes and compares such numbers from
\* the most significant byte down
decodeU64(buffer) == [i \in 1..8 |-> buffer[i]]

u64Less(a, b) == \E i \in 1..8 : a[i] < b[i] /\ \A j \in (i + 1)..8 : a[j] = b[j]

\* Math.floor(Date.now() / 1000) as a u64
unixTimestampU64(nowMs) == encodeU64(nowMs \div 1000)

\* Array.prototype.join(".")
RECURSIVE join(_)
join(parts) ==
  IF Len(parts) = 0 THEN <<>>
  ELSE IF Len(parts) = 1 THEN parts[1]
  ELSE parts[1] \o <<".">> \o join(Tail(parts))

\* String.prototype.split(".")
RECURSIVE split(_)
split(s) ==
  IF \E i \in 1..Len(s) : s[i] = "."
    THEN LET i == CHOOSE i \in 1..Len(s) : s[i] = "." /\ \A j \in 1..(i - 1) : s[j] # "."
         IN <<SubSeq(s, 1, i - 1)>> \o split(SubSeq(s, i + 1, Len(s)))
  ELSE <<s>>

generateClientTokenFromNonce(selectedParams, key, nonce) ==
  LET publicKeyDER == exportKey(key.publicKey)
      hashInput == concatBytes(<<publicKeyDER, nonce>>)
      digest == digestSha256(hashInput)
      signature == subtleSign(key.privateKey, digest)
      hashMethod == chars_sha256
      hashBase64 == encodeBase64(digest)
      saltBase64 == encodeBase64(nonce)
      signMethod == selectedParams.identifier
      signatureBase64 == encodeBase64(signature)
  IN join(<<hashMethod, hashBase64, saltBase64, signMethod, signatureBase64>>)

generateClientTokenFromCurrentTimestamp(selectedParams, key, nowMs) ==
  generateClientTokenFromNonce(selectedParams, key, unixTimestampU64(nowMs))

\* verifyToken as it would be without the comparison of the recomputed hash
\* with the token's hash field
verifyTokenNoHashCheck(selectedParams, publicKey, token, nowMs) ==
  LET parts == split(token)
  IN IF Len(parts) # 5 THEN "false"
     ELSE IF parts[1] # chars_sha256 THEN "false"
     ELSE IF parts[4] # selectedParams.identifier THEN "false"
     ELSE IF decodeBase64Throws(parts[3]) THEN "throw"
     ELSE LET saltBuffer == decodeBase64(parts[3])
              digest == digestSha256(concatBytes(<<exportKey(publicKey), saltBuffer>>))
          IN IF Len(saltBuffer) # 8 THEN "false"
             ELSE IF u64Less(decodeU64(saltBuffer), encodeU64((nowMs \div 1000) - 60 * 60))
               THEN "false"
             ELSE IF decodeBase64Throws(parts[5]) THEN "throw"
             ELSE IF subtleVerify(publicKey, decodeBase64(parts[5]), digest) THEN "true"
             ELSE "false"

\* the result is "true", "false", or "throw" (the promise rejects)
verifyToken(selectedParams, publicKey, token, nowMs) ==
  LET parts == split(token)
  IN IF Len(parts) # 5 THEN "false"
     ELSE
     LET hashMethod == parts[1]
         hashB64 == parts[2]
         saltB64 == parts[3]
         signMethod == parts[4]
         signB64 == parts[5]
     IN IF hashMethod # chars_sha256 THEN "false"
        ELSE IF signMethod # selectedParams.identifier THEN "false"
        ELSE IF decodeBase64Throws(saltB64) THEN "throw"
        ELSE
        LET saltBuffer == decodeBase64(saltB64)
        IN IF Len(saltBuffer) # 8 THEN "false"
           ELSE
           LET saltSeconds == decodeU64(saltBuffer)
               nowInSeconds == nowMs \div 1000
           \* nowInSeconds - saltSeconds > 60 * 60
           IN IF u64Less(saltSeconds, encodeU64(nowInSeconds - 60 * 60)) THEN "false"
              ELSE
              LET publicKeyDER == exportKey(publicKey)
                  hashInput == concatBytes(<<publicKeyDER, saltBuffer>>)
                  digest == digestSha256(hashInput)
                  recomputedHashB64 == encodeBase64(digest)
              IN IF recomputedHashB64 # hashB64 THEN "false"
                 ELSE IF decodeBase64Throws(signB64) THEN "throw"
                 ELSE IF subtleVerify(publicKey, decodeBase64(signB64), digest)
                   THEN "true"
                 ELSE "false"

(***************************************************************************)
(* utils/streamController.ts over the platform's ReadableStream.           *)
(*                                                                         *)
(* queue is the stream's internal queue, lockedBy the handle whose reader  *)
(* holds the stream's lock (0: unlocked).  A handle is the object that     *)
(* createAsyncIterator returns: its async generator is "suspendedStart"    *)
(* until the first pull, "awaitingRead" while reader.read() is pending,    *)
(* "suspendedYield" after it yielded a value, "completed" after it         *)
(* returned or threw; reader says whether the generator has passed its     *)
(* reader to the handle (onReader).                                        *)
(***************************************************************************)
NewStreamController ==
  [queue |-> <<>>, lockedBy |-> 0, handles |-> <<>>,
   added |-> <<>>, yielded |-> <<>>, preAdded |-> 0, threw |-> "none"]

NewHandle == [state |-> "suspendedStart", reader |-> FALSE, count |-> 0]

\* reader.read() inside the generator of handle h: the head of the queue is
\* yielded, or the read stays pending
GeneratorRead(c, h) ==
  IF c.queue # <<>>
    THEN [c EXCEPT !.queue = Tail(@),
                   !.handles[h].state = "suspendedYield",
                   !.handles[h].count = @ + 1,
                   !.yielded = Append(@, Head(c.queue))]
    ELSE [c EXCEPT !.handles[h].state = "awaitingRead"]

\* add as it would be without the stream's queue: a value that no pending
\* read takes is dropped
addUnbuffered(c, data) ==
  IF c.lockedBy # 0 /\ c.handles[c.lockedBy].state = "awaitingRead"
    THEN [c EXCEPT !.added = Append(@, data),
                   !.handles[c.lockedBy].state = "suspendedYield",
                   !.handles[c.lockedBy].count = @ + 1,
                   !.yielded = Append(@, data)]
    ELSE [c EXCEPT !.added = Append(@, data)]

\* controller.enqueue(data): a pending read of the reader takes the value,
\* otherwise the value is queued
add(c, data) ==
  IF c.lockedBy # 0 /\ c.handles[c.lockedBy].state = "awaitingRead"
    THEN [c EXCEPT !.added = Append(@, data),
                   !.handles[c.lockedBy].state = "suspendedYield",
                   !.handles[c.lockedBy].count = @ + 1,
                   !.yielded = Append(@, data)]
    ELSE [c EXCEPT !.added = Append(@, data), !.queue = Append(@, data)]

createAsyncIterator(c) ==
  [c EXCEPT !.handles = Append(@, NewHandle),
            !.preAdded = IF c.handles = <<>> THEN Len(c.added) ELSE @]

\* asyncIterator.next() on handle h
iteratorNext(c, h) ==
  CASE c.handles[h].state = "suspendedStart" ->
         IF c.lockedBy # 0
           \* getReader() throws: the stream is locked
           THEN [c EXCEPT !.handles[h].state = "completed", !.threw = "getReader"]
           ELSE GeneratorRead([c EXCEPT !.lockedBy = h, !.handles[h].reader = TRUE], h)
    [] c.handles[h].state = "suspendedYield" ->
         IF c.lockedBy # h
           \* the reader was released: read() rejects, finally runs
           THEN [c EXCEPT !.handles[h].state = "completed", !.threw = "read"]
           ELSE GeneratorRead(c, h)

\* asyncIterator.return(): leaving a for await loop by break
iteratorReturn(c, h) ==
  [c EXCEPT !.handles[h].state = "completed",
            !.lockedBy = IF c.handles[h].state = "suspendedYield" /\ @ = h THEN 0 ELSE @]

\* handle.releaseLock(): reader.releaseLock() on the handle's reader.  With
\* a read pending the platform either rejects the read and releases
\* (Streams standard) or throws and keeps the lock (older engines).
releaseLock(c, h, legacy) ==
  IF ~c.handles[h].reader THEN [c EXCEPT !.threw = "releaseLock"]
  ELSE IF c.lockedBy # h THEN c
  ELSE IF c.handles[h].state = "awaitingRead"
    THEN IF legacy THEN [c EXCEPT !.threw = "releaseLock"]
         ELSE [c EXCEPT !.lockedBy = 0, !.handles[h].state = "completed", !.threw = "read"]
  ELSE [c EXCEPT !.lockedBy = 0]

(***************************************************************************)
(* services/webrtc.ts: the messages of a session.                          *)
(*                                                                         *)
(* A message of the data channel is a string, [kind |-> "str"], or binary, *)
(* [kind |-> "bin"].  A string message carries the value JSON.parse gives  *)
(* for its text: a record for an object, [number |-> 0] for the delimiter *)
(* "0".  A field the object does not have reads as undefined.              *)
(***************************************************************************)
CHUNK_SIZE == 16 * 1024

MAX_BUFFERED_AMOUNT == 1024 * 1024

Undefined == "undefined"

\* the text "0"
DelimiterJson == [number |-> 0]

StrMsg(json) == [kind |-> "str", json |-> json]

BinMsg(data) == [kind |-> "bin", data |-> data]

\* property access on a parsed JSON value
Get(json, field) == IF field \in DOMAIN json THEN json[field] ELSE Undefined

\* string.length of a string message
textLength(json) == IF json = DelimiterJson THEN 1 ELSE SmallJsonLen

\* what a message adds to bufferedAmount
messageBytes(m) == IF m.kind = "bin" THEN byteLength(m.data) ELSE textLength(m.json)

RECURSIVE bufferedBytes(_)
bufferedBytes(buffer) ==
  IF buffer = <<>> THEN 0 ELSE messageBytes(Head(buffer)) + bufferedBytes(Tail(buffer))

\* dataChannel.bufferedAmount of a side
bufferedAmount(dc, side) == dc[side].bufferedAmount

\* waitBufferEmpty as it would be if it returned at once
waitBufferEmptyNoWait(dc, side) == TRUE

\* waitBufferEmpty returns: the poll finds bufferedAmount at 0
waitBufferEmpty(dc, side) == bufferedAmount(dc, side) = 0

\* new TextEncoder().encode(JSON.stringify(json)), a text of len bytes
encodeJson(json, len) == contentBytes([type |-> "json", json |-> json], len)

\* the chunks sendStringInChunks slices from the encoded text
RECURSIVE stringChunks(_, _)
stringChunks(buffer, i) ==
  IF i >= byteLength(buffer) THEN <<>>
  ELSE <<BinMsg(sliceBytes(buffer, i, Min(i + CHUNK_SIZE, byteLength(buffer))))>>
         \o stringChunks(buffer, i + CHUNK_SIZE)

\* arrayBufferToString then JSON.parse: the text parses when the chunks put
\* together are one whole encoded text; anything else is a SyntaxError
arrayBufferToString(chunks) == concatAll(chunks)

parseThrows(text) ==
  ~(/\ Len(text) = 1
    /\ "type" \in DOMAIN text[1].src
    /\ text[1].lo = 0
    /\ text[1].hi > 0)

parseJson(text) == text[1].src.json

\* i.toString()
indexToString(i) == <<"0", "1", "2", "3", "4", "5", "6", "7", "8", "9">>[i + 1]

\* this._stream.getReader() of a new handle's generator: the reader locks
\* the stream, and where a reader holds the lock the call throws a TypeError
getReader(s) ==
  IF s.locked THEN [s EXCEPT !.threw = TRUE] ELSE [s EXCEPT !.locked = TRUE]

\* reader.releaseLock() as it would be if it left the stream locked
readerKeepLock(s) == s

\* reader.releaseLock(): in the generator's finally block and in the
\* handle's releaseLock
readerReleaseLock(s) == [s EXCEPT !.locked = FALSE]

\* a for await loop is left by break or by an exception: asyncIterator.return()
\* runs the generator's finally block
forAwaitReturn(st, side) == [st EXCEPT !.stream[side] = readerReleaseLock(@)]

\* the two sides of a session
Sides == {"sender", "receiver"}

Peer(side) == IF side = "sender" THEN "receiver" ELSE "sender"

\* dataChannel.send(m): the message joins the side's send buffer; obs keeps
\* every message sent
sendAll(st, side, msgs) ==
  [st EXCEPT !.dataChannel[side].buffer = @ \o msgs,
             !.dataChannel[side].bufferedAmount = @ + bufferedBytes(msgs),
             !.obs.sent[side] = @ \o msgs]

send(st, side, m) == sendAll(st, side, <<m>>)

\* dataChannel.send(JSON.stringify(json))
sendJson(st, side, json) == send(st, side, StrMsg(json))

sendStringInChunks(st, side, json, len) ==
  sendAll(st, side, stringChunks(encodeJson(json, len), 0))

sendDelimiter(st, side) == send(st, side, StrMsg(DelimiterJson))

(***************************************************************************)
(* services/webrtc.ts: sendFiles, from the opening of the data channel.    *)
(*                                                                         *)
(* The operators below take and give the whole session state st: the       *)
(* record [snd, rcv, dataChannel, stream, env, obs].  Each runs the code   *)
(* from one await to the next, as one task of the event loop does.         *)
(***************************************************************************)
\* a PinConfig; the argument is optional
NoPin == [enabled |-> FALSE, pin |-> "", maxTries |-> 0]

PinConfig(pin, maxTries) == [enabled |-> TRUE, pin |-> pin, maxTries |-> maxTries]

\* the signing key pair and the selected algorithm of a side
signingKey(st, side) == generateKeyPair(st.env.key[side])

selectedParams == cryptoParams.rsaPss

\* convertFileListToDto as it would be if every file got the id "0"
convertFileListToDtoOneId(files) ==
  [i \in 1..Len(files) |-> [id |-> indexToString(0), size |-> files[i]]]

convertFileListToDto(files) ==
  [i \in 1..Len(files) |-> [id |-> indexToString(i - 1), size |-> files[i]]]

\* file.stream(): the bytes of the file with this id
fileBytes(id, lo, hi) == IF hi > lo THEN <<Segment([file |-> id], lo, hi)>> ELSE <<>>

\* an exception leaves the function
throw(st, side, error) ==
  IF side = "sender"
    THEN [st EXCEPT !.snd.pc = "threw", !.snd.error = error]
    ELSE [st EXCEPT !.rcv.pc = "threw", !.rcv.error = error]

\* dataChannel.close()
closeChannel(st, side) == [st EXCEPT !.dataChannel[side].state = "closed"]

onFileProgress(st, side, progress) == [st EXCEPT !.obs.progress[side] = Append(@, progress)]

\* const reader = file.stream().getReader(); buffer empty; bytesSent = 0
sendFileInChunks(st) ==
  [st EXCEPT !.snd.buffer = <<>>, !.snd.bytesSent = 0, !.snd.pos = 0, !.snd.pc = "read"]

\* the file the loop of sendFiles is at
currentFile(st) == st.snd.fileDtoList[st.snd.i + 1]

fileHeader(st, fileDto) == [id |-> fileDto.id, token |-> st.snd.fileTokens[fileDto.id]]

\* sendChunks as it would be if the whole buffer were sent once it holds a
\* full chunk
sendChunksWhole(st) ==
  IF byteLength(st.snd.buffer) >= CHUNK_SIZE
    THEN IF bufferedAmount(st.dataChannel, "sender") > MAX_BUFFERED_AMOUNT
           THEN [st EXCEPT !.snd.pc = "backpressure"]
           ELSE LET bytesSent == st.snd.bytesSent + byteLength(st.snd.buffer)
                    s1 == send(st, "sender", BinMsg(st.snd.buffer))
                    s2 == onFileProgress(s1, "sender",
                                         [id |-> currentFile(st).id, curr |-> bytesSent])
                IN [s2 EXCEPT !.snd.bytesSent = bytesSent, !.snd.buffer = <<>>,
                              !.snd.pc = "read"]
    ELSE [st EXCEPT !.snd.pc = "read"]

\* while (buffer.length >= CHUNK_SIZE): wait while bufferedAmount is above
\* MAX_BUFFERED_AMOUNT, else send the first CHUNK_SIZE bytes of the buffer
RECURSIVE sendChunks(_)
sendChunks(st) ==
  IF byteLength(st.snd.buffer) >= CHUNK_SIZE
    THEN IF bufferedAmount(st.dataChannel, "sender") > MAX_BUFFERED_AMOUNT
           THEN [st EXCEPT !.snd.pc = "backpressure"]
           ELSE LET chunkToSend == sliceBytes(st.snd.buffer, 0, CHUNK_SIZE)
                    bytesSent == st.snd.bytesSent + byteLength(chunkToSend)
                    s1 == send(st, "sender", BinMsg(chunkToSend))
                    s2 == onFileProgress(s1, "sender",
                                         [id |-> currentFile(st).id, curr |-> bytesSent])
                IN sendChunks([s2 EXCEPT !.snd.bytesSent = bytesSent,
                                         !.snd.buffer = sliceBytesFrom(@, CHUNK_SIZE)])
    ELSE [st EXCEPT !.snd.pc = "read"]

\* readValue as it would be if the buffer were replaced by the value read
\* instead of extended by it
readValueOverwrite(st, n) ==
  LET file == currentFile(st)
      end == Min(st.snd.pos + n, file.size)
      value == fileBytes(file.id, st.snd.pos, end)
  IN sendChunks([st EXCEPT !.snd.buffer = value, !.snd.pos = end])

\* reader.read() gave { done: false, value }, value being the next n bytes
readValue(st, n) ==
  LET file == currentFile(st)
      end == Min(st.snd.pos + n, file.size)
      value == fileBytes(file.id, st.snd.pos, end)
  IN sendChunks([st EXCEPT !.snd.buffer = concatArrays(@, value), !.snd.pos = end])

\* readDone as it would be if the delimiter followed every file
readDoneDelimiter(st) ==
  LET s1 == IF byteLength(st.snd.buffer) > 0
              THEN send(st, "sender", BinMsg(st.snd.buffer))
              ELSE st
  IN [sendDelimiter(s1, "sender") EXCEPT !.snd.pc = "fileStatus",
                    !.stream["sender"] = getReader(@)]

\* reader.read() gave { done: true }: the rest of the buffer is sent, then
\* the header of the next file or the delimiter
readDone(st) ==
  LET s1 == IF byteLength(st.snd.buffer) > 0
              THEN send(st, "sender", BinMsg(st.snd.buffer))
              ELSE st
      s2 == IF st.snd.i + 1 < Len(st.snd.fileDtoList)
              THEN sendJson(s1, "sender", fileHeader(st, st.snd.fileDtoList[st.snd.i + 2]))
              ELSE sendDelimiter(s1, "sender")
  IN [s2 EXCEPT !.snd.pc = "fileStatus",
                    !.stream["sender"] = getReader(@)]

\* fileStatus as it would be if every status were attributed to the first
\* file of the list
fileStatusFirstFile(st, m) ==
  IF m.kind # "str" THEN throw(st, "sender", "Expected string")
  ELSE LET fileDto == st.snd.fileDtoList[1]
           s1 == onFileProgress(st, "sender",
                   [id |-> fileDto.id, curr |-> fileDto.size,
                    success |-> Get(m.json, "success"),
                    error |-> Get(m.json, "error")])
           s2 == [s1 EXCEPT !.snd.i = @ + 1]
       IN IF s2.snd.i < Len(s2.snd.fileDtoList)
            THEN sendFileInChunks(s2)
            ELSE [closeChannel(s2, "sender") EXCEPT !.snd.pc = "done"]

\* fileStatus as it would be if a failed file ended the session
fileStatusAbortOnFailure(st, m) ==
  IF m.kind # "str" THEN throw(st, "sender", "Expected string")
  ELSE LET fileDto == currentFile(st)
           s1 == onFileProgress(st, "sender",
                   [id |-> fileDto.id, curr |-> fileDto.size,
                    success |-> Get(m.json, "success"),
                    error |-> Get(m.json, "error")])
           s2 == [s1 EXCEPT !.snd.i = @ + 1]
       IN IF Get(m.json, "success") # TRUE
            THEN [closeChannel(s1, "sender") EXCEPT !.snd.pc = "returned"]
          ELSE IF s2.snd.i < Len(s2.snd.fileDtoList)
            THEN sendFileInChunks(s2)
            ELSE [closeChannel(s2, "sender") EXCEPT !.snd.pc = "done"]

\* the file status arrived: progress, then the next file or the close
fileStatus(st, m) ==
  IF m.kind # "str" THEN throw(st, "sender", "Expected string")
  ELSE LET fileDto == currentFile(st)
           s1 == onFileProgress(st, "sender",
                   [id |-> fileDto.id, curr |-> fileDto.size,
                    success |-> Get(m.json, "success"),
                    error |-> Get(m.json, "error")])
           s2 == [s1 EXCEPT !.snd.i = @ + 1]
       IN IF s2.snd.i < Len(s2.snd.fileDtoList)
            THEN sendFileInChunks(s2)
            ELSE [closeChannel(s2, "sender") EXCEPT !.snd.pc = "done"]

\* the ids of a list of FileDto
fileIds(fileDtoList) == [k \in 1..Len(fileDtoList) |-> fileDtoList[k].id]

\* skippedFileIds as it would be with the test inverted
skippedFileIdsInverted(fileDtoList, fileTokens) ==
  [k \in 1..Len(SelectSeq(fileDtoList, LAMBDA file : file.id \in DOMAIN fileTokens)) |->
     SelectSeq(fileDtoList, LAMBDA file : file.id \in DOMAIN fileTokens)[k].id]

\* the ids the filter pushes to skippedFiles: those without a token
skippedFileIds(fileDtoList, fileTokens) ==
  fileIds(SelectSeq(fileDtoList, LAMBDA file : file.id \notin DOMAIN fileTokens))

\* fileDtoList.filter(...): the files with a token
filterSelected(fileDtoList, fileTokens) ==
  SelectSeq(fileDtoList, LAMBDA file : file.id \in DOMAIN fileTokens)

\* fileTokens is known: filter the list, report the skipped, send the first
\* header and start the first file
startTransfer(st, fileTokens) ==
  LET skippedFiles == skippedFileIds(st.snd.fileDtoList, fileTokens)
      filtered == filterSelected(st.snd.fileDtoList, fileTokens)
      s1 == [st EXCEPT !.snd.fileTokens = fileTokens,
                       !.snd.fileDtoList = filtered,
                       !.snd.skippedFiles = skippedFiles,
                       !.obs.onFilesSkip =
                          IF Len(skippedFiles) > 0 THEN Append(@, skippedFiles) ELSE @]
  IN IF Len(filtered) = 0
       \* firstFileDto is undefined: reading firstFileDto.id is a TypeError
       THEN throw(s1, "sender", "TypeError: firstFileDto is undefined")
       ELSE sendFileInChunks(
              [sendJson(s1, "sender", fileHeader(s1, filtered[1])) EXCEPT !.snd.i = 0])

\* fileListResponse as it would be if every PAIR were declined and answered
fileListResponseEveryPair(st, chunks) ==
  LET text == arrayBufferToString(chunks)
  IN IF parseThrows(text) THEN throw(st, "sender", "SyntaxError")
     ELSE LET response == parseJson(text)
              status == Get(response, "status")
          IN IF status = "OK" THEN
               IF "files" \in DOMAIN response
                 THEN startTransfer(st, response.files)
                 ELSE throw(st, "sender", "TypeError")
             ELSE IF status = "PAIR"
               THEN [sendJson(st, "sender", [status |-> "PAIR_DECLINED"])
                       EXCEPT !.snd.pairDeclined = TRUE, !.snd.chunks = <<>>,
                              !.snd.pc = "fileListResponse",
                    !.stream["sender"] = getReader(@)]
             ELSE [st EXCEPT !.snd.pc = "returned"]

\* the answer to the file list, read in chunks up to a string message
fileListResponse(st, chunks) ==
  LET text == arrayBufferToString(chunks)
  IN IF parseThrows(text) THEN throw(st, "sender", "SyntaxError")
     ELSE LET response == parseJson(text)
              status == Get(response, "status")
          IN IF status = "OK" THEN
               IF "files" \in DOMAIN response
                 THEN startTransfer(st, response.files)
                 ELSE throw(st, "sender", "TypeError")
             ELSE IF status = "PAIR" /\ ~st.snd.pairDeclined
               THEN [sendJson(st, "sender", [status |-> "PAIR_DECLINED"])
                       EXCEPT !.snd.pairDeclined = TRUE, !.snd.chunks = <<>>,
                              !.snd.pc = "fileListResponse",
                    !.stream["sender"] = getReader(@)]
             ELSE [st EXCEPT !.snd.pc = "returned"]

\* the file list goes out
sendFileList(st) ==
  LET s1 == sendStringInChunks(st, "sender",
              [status |-> "OK", files |-> st.snd.fileDtoList], st.env.manifestLen)
  IN [sendDelimiter(s1, "sender") EXCEPT !.snd.pc = "fileListResponse",
                    !.stream["sender"] = getReader(@), !.snd.chunks = <<>>]

\* the top of the loop of the sender's own PIN, and what follows the loop
senderPinLoop(st) ==
  LET pin == st.env.pin.sender
  IN IF ~pin.enabled \/ st.snd.remotePin = pin.pin THEN sendFileList(st)
     ELSE IF st.snd.pinTry >= pin.maxTries
       THEN [sendDelimiter(sendStringInChunks(st, "sender",
                [status |-> "TOO_MANY_ATTEMPTS"], SmallJsonLen), "sender")
               EXCEPT !.snd.pc = "waitBufferEmpty"]
     ELSE [sendDelimiter(sendStringInChunks(st, "sender",
              [status |-> "PIN_REQUIRED"], SmallJsonLen), "sender")
             EXCEPT !.snd.pc = "remotePin",
                    !.stream["sender"] = getReader(@)]

\* nonce.set(first); nonce.set(second, first.length) on a new
\* Uint8Array(first.length + second.length)
nonceSet(first, second) ==
  [i \in 1..(Len(first) + Len(second)) |->
     IF i <= Len(first) THEN first[i] ELSE second[i - Len(first)]]

\* the nonce material sendFiles computes
senderNonce(localNonce, remoteNonce) == nonceSet(localNonce, remoteNonce)

\* receiverNonce as it would be with the local nonce first, as in sendFiles
receiverNonceLocalFirst(localNonce, remoteNonce) == nonceSet(localNonce, remoteNonce)

\* the nonce material receiveFiles computes
receiverNonce(localNonce, remoteNonce) == nonceSet(remoteNonce, localNonce)

\* receiveNonce: the error it throws on message m, or "none"
receiveNonceError(m) ==
  IF m.kind # "str" THEN "Expected string"
  ELSE IF "nonce" \notin DOMAIN m.json THEN "TypeError"
  ELSE IF decodeBase64Throws(m.json.nonce) THEN "InvalidCharacterError"
  ELSE IF ~validateNonce(decodeBase64(m.json.nonce)) THEN "Invalid remote nonce"
  ELSE "none"

receiveNonce(m) == decodeBase64(m.json.nonce)

\* a token field of a message; a missing one reads as no token
GetToken(json) == IF "token" \in DOMAIN json THEN json.token ELSE <<>>

\* data channel opened: the local nonce goes out
sendNonce(st) ==
  LET localNonce == generateNonce(st.env.seed.sender)
  IN [sendJson(st, "sender", [nonce |-> encodeBase64(localNonce)])
        EXCEPT !.snd.localNonce = localNonce, !.snd.pc = "receiveNonce",
                    !.stream["sender"] = getReader(@)]

\* the remote nonce arrived: nonce material, local token, token request
sendToken(st, m) ==
  IF receiveNonceError(m) # "none" THEN throw(st, "sender", receiveNonceError(m))
  ELSE LET remoteNonce == receiveNonce(m)
           nonce == senderNonce(st.snd.localNonce, remoteNonce)
           localToken == generateClientTokenFromNonce(selectedParams,
                                                      signingKey(st, "sender"), nonce)
       IN [sendJson(st, "sender", [token |-> localToken])
             EXCEPT !.snd.remoteNonce = remoteNonce, !.snd.nonce = nonce,
                    !.snd.localToken = localToken, !.snd.pc = "tokenResponse",
                    !.stream["sender"] = getReader(@)]

\* the token response arrived
tokenResponse(st, m) ==
  IF m.kind # "str" THEN throw(st, "sender", "Expected string")
  ELSE LET status == Get(m.json, "status")
       IN IF status = "INVALID_SIGNATURE" THEN [st EXCEPT !.snd.pc = "returned"]
          ELSE IF status = "OK"
            THEN senderPinLoop([st EXCEPT !.snd.remoteToken = GetToken(m.json)])
          ELSE IF status = "PIN_REQUIRED"
            THEN [st EXCEPT !.snd.remoteToken = GetToken(m.json), !.snd.pc = "onPin"]
          ELSE [st EXCEPT !.snd.pc = "returned"]

\* handlePin as it would be if it threw without closing the channel
handlePinNoClose(st, side, input) ==
  IF input = ""
    THEN throw(st, side, "PIN required")
    ELSE LET s1 == sendJson(st, side, [pin |-> input])
         IN IF side = "sender"
              THEN [s1 EXCEPT !.snd.pc = "pinResponse",
                    !.stream["sender"] = getReader(@)]
              ELSE [s1 EXCEPT !.rcv.pc = "pinResponse",
                    !.stream["receiver"] = getReader(@), !.rcv.chunks = <<>>]

\* handlePin: onPin() resolved with input ("" stands for null and for "")
handlePin(st, side, input) ==
  IF input = ""
    THEN throw(closeChannel(st, side), side, "PIN required")
    ELSE LET s1 == sendJson(st, side, [pin |-> input])
         IN IF side = "sender"
              THEN [s1 EXCEPT !.snd.pc = "pinResponse",
                    !.stream["sender"] = getReader(@)]
              ELSE [s1 EXCEPT !.rcv.pc = "pinResponse",
                    !.stream["receiver"] = getReader(@), !.rcv.chunks = <<>>]

\* handlePin of sendFiles: the response to the PIN arrived
senderPinResponse(st, m) ==
  IF m.kind # "str" THEN throw(st, "sender", "Expected string")
  ELSE LET status == Get(m.json, "status")
       IN IF status = "PIN_REQUIRED" THEN [st EXCEPT !.snd.pc = "onPin"]
          ELSE IF status = "TOO_MANY_ATTEMPTS" THEN throw(st, "sender", "Too many attempts")
          ELSE senderPinLoop(st)

\* the PIN the receiver entered arrived
senderRemotePin(st, m) ==
  IF m.kind # "str" THEN throw(st, "sender", "Expected string")
  ELSE senderPinLoop([st EXCEPT !.snd.remotePin = Get(m.json, "pin"),
                                !.snd.pinTry = @ + 1])

(***************************************************************************)
(* services/webrtc.ts: receiveFiles, from the opening of the data channel. *)
(***************************************************************************)
\* fileState = null
NoFileState == [set |-> FALSE, id |-> "", chunks |-> <<>>, curr |-> 0]

\* Math.random().toString(), draw number k
randomString(k) == <<"0.1", "0.2", "0.3", "0.4", "0.5">>[k]

\* receiverPinLoop as it would be with the limit tested before the PIN
receiverPinLoopLimitFirst(st) ==
  LET pin == st.env.pin.receiver
  IN IF st.rcv.pinTry >= pin.maxTries
       THEN [sendJson(st, "receiver", [status |-> "TOO_MANY_ATTEMPTS"])
               EXCEPT !.rcv.pc = "waitBufferEmpty"]
     ELSE IF st.rcv.remotePin = pin.pin
       THEN [sendJson(st, "receiver", [status |-> "OK"])
               EXCEPT !.rcv.pc = "pinSendingResponse",
                    !.stream["receiver"] = getReader(@), !.rcv.chunks = <<>>]
     ELSE [(IF st.rcv.pinTry # 0
              THEN sendJson(st, "receiver", [status |-> "PIN_REQUIRED"])
              ELSE st)
             EXCEPT !.rcv.pc = "remotePin",
                    !.stream["receiver"] = getReader(@)]

\* receiverPinLoop as it would be with pinTry > pin.maxTries as the limit
receiverPinLoopOffByOne(st) ==
  LET pin == st.env.pin.receiver
  IN IF st.rcv.remotePin = pin.pin
       THEN [sendJson(st, "receiver", [status |-> "OK"])
               EXCEPT !.rcv.pc = "pinSendingResponse",
                    !.stream["receiver"] = getReader(@), !.rcv.chunks = <<>>]
     ELSE IF st.rcv.pinTry > pin.maxTries
       THEN [sendJson(st, "receiver", [status |-> "TOO_MANY_ATTEMPTS"])
               EXCEPT !.rcv.pc = "waitBufferEmpty"]
     ELSE [(IF st.rcv.pinTry # 0
              THEN sendJson(st, "receiver", [status |-> "PIN_REQUIRED"])
              ELSE st)
             EXCEPT !.rcv.pc = "remotePin",
                    !.stream["receiver"] = getReader(@)]

\* the top of the loop of the receiver's PIN, and what follows the loop
receiverPinLoop(st) ==
  LET pin == st.env.pin.receiver
  IN IF st.rcv.remotePin = pin.pin
       THEN [sendJson(st, "receiver", [status |-> "OK"])
               EXCEPT !.rcv.pc = "pinSendingResponse",
                    !.stream["receiver"] = getReader(@), !.rcv.chunks = <<>>]
     ELSE IF st.rcv.pinTry >= pin.maxTries
       THEN [sendJson(st, "receiver", [status |-> "TOO_MANY_ATTEMPTS"])
               EXCEPT !.rcv.pc = "waitBufferEmpty"]
     ELSE [(IF st.rcv.pinTry # 0
              THEN sendJson(st, "receiver", [status |-> "PIN_REQUIRED"])
              ELSE st)
             EXCEPT !.rcv.pc = "remotePin",
                    !.stream["receiver"] = getReader(@)]

\* the remote nonce arrived: the local nonce goes out, nonce material
answerNonce(st, m) ==
  IF receiveNonceError(m) # "none" THEN throw(st, "receiver", receiveNonceError(m))
  ELSE LET remoteNonce == receiveNonce(m)
           localNonce == generateNonce(st.env.seed.receiver)
       IN [sendJson(st, "receiver", [nonce |-> encodeBase64(localNonce)])
             EXCEPT !.rcv.remoteNonce = remoteNonce, !.rcv.localNonce = localNonce,
                    !.rcv.nonce = receiverNonce(localNonce, remoteNonce),
                    !.rcv.pc = "remoteToken",
                    !.stream["receiver"] = getReader(@)]

\* the token request arrived: local token, token response, PIN loop
answerToken(st, m) ==
  IF m.kind # "str" THEN throw(st, "receiver", "Expected string")
  ELSE LET localToken == generateClientTokenFromNonce(selectedParams,
                           signingKey(st, "receiver"), st.rcv.nonce)
           s1 == [st EXCEPT !.rcv.remoteToken = GetToken(m.json),
                            !.rcv.localToken = localToken]
       IN IF st.env.pin.receiver.enabled
            THEN receiverPinLoop(
                   sendJson(s1, "receiver", [status |-> "PIN_REQUIRED", token |-> localToken]))
            ELSE [sendJson(s1, "receiver", [status |-> "OK", token |-> localToken])
                    EXCEPT !.rcv.pc = "pinSendingResponse",
                    !.stream["receiver"] = getReader(@), !.rcv.chunks = <<>>]

\* the PIN the sender entered arrived
receiverRemotePin(st, m) ==
  IF m.kind # "str" THEN throw(st, "receiver", "Expected string")
  ELSE receiverPinLoop([st EXCEPT !.rcv.remotePin = Get(m.json, "pin"),
                                  !.rcv.pinTry = @ + 1])

\* the file list is in hand: the user is asked
gotFileList(st, response) ==
  IF "files" \in DOMAIN response
    THEN [st EXCEPT !.rcv.fileList = response.files, !.rcv.pc = "selectFiles"]
    \* fileList is undefined: iterating it is a TypeError
    ELSE throw(st, "receiver", "TypeError")

\* the sender's PIN status, read in chunks up to a string message
pinSendingResponse(st, chunks) ==
  LET text == arrayBufferToString(chunks)
  IN IF parseThrows(text) THEN throw(st, "receiver", "SyntaxError")
     ELSE LET response == parseJson(text)
              status == Get(response, "status")
          IN IF status = "OK" THEN gotFileList(st, response)
             ELSE IF status = "TOO_MANY_ATTEMPTS" THEN [st EXCEPT !.rcv.pc = "returned"]
             ELSE IF status = "PIN_REQUIRED" THEN [st EXCEPT !.rcv.pc = "onPin"]
             ELSE throw(st, "receiver", "TypeError")

\* handlePin of receiveFiles: the response to the PIN, read in chunks
receiverPinResponse(st, chunks) ==
  LET text == arrayBufferToString(chunks)
  IN IF parseThrows(text) THEN throw(st, "receiver", "SyntaxError")
     ELSE LET response == parseJson(text)
              status == Get(response, "status")
          IN IF status = "PIN_REQUIRED" THEN [st EXCEPT !.rcv.pc = "onPin"]
             ELSE IF status = "TOO_MANY_ATTEMPTS"
               THEN throw(st, "receiver", "Too many attempts")
             ELSE IF "files" \in DOMAIN response THEN gotFileList(st, response)
             ELSE [st EXCEPT !.rcv.pc = "onPin"]

\* selectFiles(fileList) resolved with selectedFiles: the tokens go out
selectFiles(st, selectedFiles) ==
  LET fileList == st.rcv.fileList
      ids == {fileList[j].id : j \in 1..Len(fileList)} \cap selectedFiles
      pos(id) == CHOOSE j \in 1..Len(fileList) : fileList[j].id = id
      draw(id) == Cardinality({j \in 1..pos(id) : fileList[j].id \in selectedFiles})
      selectedFilesMap == [id \in ids |-> fileList[pos(id)]]
      selectedFilesTokens == [id \in ids |-> randomString(draw(id))]
      s1 == sendStringInChunks(st, "receiver",
              [status |-> "OK", files |-> selectedFilesTokens], SmallJsonLen)
  IN [sendDelimiter(s1, "receiver")
        EXCEPT !.rcv.selectedFilesMap = selectedFilesMap,
               !.rcv.selectedFilesTokens = selectedFilesTokens,
               !.rcv.fileState = NoFileState,
               !.rcv.pc = "chunk",
                    !.stream["receiver"] = getReader(@)]

\* saveFileFromBytes(new Blob(fileState.chunks), fileName)
saveFileFromBytes(st, id, blob) == [st EXCEPT !.obs.saved = Append(@, [id |-> id, blob |-> blob])]

\* the header of a file: a new fileState
fileHeaderReceived(st, m) ==
  [st EXCEPT !.rcv.fileState = [set |-> TRUE, id |-> Get(m.json, "id"),
                                chunks |-> <<>>, curr |-> 0]]

\* receiveChunk as it would be if the delimiter were parsed as a header
\* like any other string
receiveChunkNoBreak(st, m) ==
  LET fileState == st.rcv.fileState
  IN IF m.kind = "str" THEN
       IF fileState.set THEN
         IF fileState.id \notin DOMAIN st.rcv.selectedFilesMap
           THEN throw(forAwaitReturn(st, "receiver"), "receiver", "TypeError")
           ELSE LET s1 == saveFileFromBytes(st, fileState.id, fileState.chunks)
                    s2 == onFileProgress(s1, "receiver",
                            [id |-> fileState.id, curr |-> fileState.curr, success |-> TRUE])
                    s3 == sendJson(s2, "receiver", [id |-> fileState.id, success |-> TRUE])
                IN fileHeaderReceived(s3, m)
       ELSE fileHeaderReceived(st, m)
     ELSE IF ~fileState.set THEN throw(forAwaitReturn(st, "receiver"), "receiver", "Expected file state")
     ELSE LET curr == fileState.curr + byteLength(m.data)
          IN onFileProgress(
               [st EXCEPT !.rcv.fileState.chunks = concatArrays(@, m.data),
                          !.rcv.fileState.curr = curr],
               "receiver", [id |-> fileState.id, curr |-> curr])

\* one message of the receive loop.  fileState.chunks is kept as the bytes
\* new Blob(fileState.chunks) would hold.
receiveChunk(st, m) ==
  LET fileState == st.rcv.fileState
  IN IF m.kind = "str" THEN
       IF fileState.set THEN
         IF fileState.id \notin DOMAIN st.rcv.selectedFilesMap
           THEN throw(forAwaitReturn(st, "receiver"), "receiver", "TypeError")
           ELSE LET s1 == saveFileFromBytes(st, fileState.id, fileState.chunks)
                    s2 == onFileProgress(s1, "receiver",
                            [id |-> fileState.id, curr |-> fileState.curr, success |-> TRUE])
                    s3 == sendJson(s2, "receiver", [id |-> fileState.id, success |-> TRUE])
                IN IF textLength(m.json) <= 1
                     THEN [s3 EXCEPT !.rcv.fileState = NoFileState,
                                     !.rcv.pc = "waitBufferEmptyBreak"]
                     ELSE fileHeaderReceived(s3, m)
       ELSE fileHeaderReceived(st, m)
     ELSE IF ~fileState.set THEN throw(forAwaitReturn(st, "receiver"), "receiver", "Expected file state")
     ELSE LET curr == fileState.curr + byteLength(m.data)
          IN onFileProgress(
               [st EXCEPT !.rcv.fileState.chunks = concatArrays(@, m.data),
                          !.rcv.fileState.curr = curr],
               "receiver", [id |-> fileState.id, curr |-> curr])

\* waitBufferEmpty is over: return after TOO_MANY_ATTEMPTS, or leave the
\* receive loop, release the lock and close
receiverBufferEmpty(st) ==
  IF st.rcv.pc = "waitBufferEmpty"
    THEN [st EXCEPT !.rcv.pc = "returned"]
    ELSE [closeChannel(forAwaitReturn(st, "receiver"), "receiver") EXCEPT !.rcv.pc = "done"]

(***************************************************************************)
(* services/store.ts and services/signaling.ts: the relay connection.      *)
(*                                                                         *)
(* The operators take and give the record r: the position of               *)
(* connectionLoop (pc), the WebSocket of the current attempt (socket),     *)
(* store.signaling, store.client and store.peers.  A peer is a record      *)
(* [id, alias]; null is the record Null.  Three fields measure the loop:   *)
(* failure is the kind of the last connection failure since the last       *)
(* connect attempt, waited the time spent in setTimeout since then, and    *)
(* attempt what both were when the current attempt was made.               *)
(***************************************************************************)
Null == [null |-> TRUE]

\* the delay of the setTimeout in the catch block of connectionLoop
RETRY_DELAY_MS == 5000

NewRelay ==
  [pc |-> "idle", loopStarted |-> FALSE,
   proposingClient |-> Null, loops |-> 0, live |-> 0,
   socket |-> [state |-> "none", info |-> Null, hello |-> FALSE, announced |-> {},
               onAnswer |-> Null, received |-> Null, delivered |-> 0],
   signaling |-> Null, client |-> Null, peers |-> <<>>, waits |-> <<>>,
   attempts |-> 0, closes |-> 0,
   failure |-> "none", waited |-> 0,
   attempt |-> [after |-> "none", waited |-> 0]]

\* SignalingConnection.connect up to the await: new WebSocket(url)
connect(r) ==
  [r EXCEPT !.pc = "connecting",
            !.socket = [state |-> "connecting", info |-> r.proposingClient,
                        hello |-> FALSE, announced |-> {},
                        onAnswer |-> Null, received |-> Null, delivered |-> 0],
            !.live = @ + 1,
            !.attempts = @ + 1,
            !.attempt = [after |-> r.failure, waited |-> r.waited],
            !.failure = "none", !.waited = 0]

\* setupConnection as it would be without the test of _loopStarted
setupConnectionEveryCall(r, info) ==
  connect([r EXCEPT !.proposingClient = info, !.loopStarted = TRUE, !.loops = @ + 1])

\* setupConnection: the client info is kept, and connectionLoop is started
\* unless it was started before
setupConnection(r, info) ==
  LET r1 == [r EXCEPT !.proposingClient = info]
  IN IF r1.loopStarted THEN r1
     ELSE connect([r1 EXCEPT !.loopStarted = TRUE, !.loops = @ + 1])

\* ws.onopen: connect resolves with the instance, store.signaling is set
\* and the loop awaits waitUntilClose
wsOnOpen(r) ==
  [r EXCEPT !.socket.state = "open",
            !.signaling = [conn |-> r.attempts],
            !.pc = "waitUntilClose"]

\* ws.onerror while connecting: connect rejects, the catch block starts
\* the setTimeout
wsOnError(r) ==
  [r EXCEPT !.socket.state = "closed", !.live = @ - 1, !.pc = "backoff",
            !.failure = "error", !.waited = 0]

\* the setTimeout of the catch block fires: the loop connects again
retry(r) == connect([r EXCEPT !.waited = RETRY_DELAY_MS])

\* onClose as it would be if it left store.peers alone
onCloseKeepPeers(r) == [r EXCEPT !.signaling = Null, !.client = Null]

\* the onClose callback connectionLoop passes to connect
onClose(r) == [r EXCEPT !.signaling = Null, !.client = Null, !.peers = <<>>]

\* the close event of an open socket: socket.onclose calls onClose, then the
\* listener of waitUntilClose resolves and the loop connects again
wsOnClose(r) ==
  LET r1 == onClose([r EXCEPT !.socket.state = "closed", !.live = @ - 1,
                              !.closes = @ + 1])
  IN connect([r1 EXCEPT !.failure = "close", !.waited = 0])

\* the onMessage callback connectionLoop passes to connect, for the
\* messages that change the roster
onMessage(r, data) ==
  CASE data.type = "hello" -> [r EXCEPT !.client = data.client, !.peers = data.peers]
    [] data.type = "join" -> [r EXCEPT !.peers = Append(@, data.peer)]
    [] data.type = "update" ->
         [r EXCEPT !.peers = [k \in 1..Len(@) |->
                                IF @[k].id = data.peer.id THEN data.peer ELSE @[k]]]
    [] data.type = "left" ->
         [r EXCEPT !.peers = SelectSeq(@, LAMBDA p : p.id # data.peerId)]
    [] OTHER -> r

\* the peers a relay message announces
announcedBy(data) ==
  CASE data.type = "hello" -> {data.peers[k] : k \in 1..Len(data.peers)}
    [] data.type \in {"join", "update"} -> {data.peer}
    [] OTHER -> {}

\* waitForAnswer(sessionId): a new promise, its resolve put in _onAnswer
waitForAnswer(r, sessionId) ==
  [r EXCEPT !.waits = Append(@, [sessionId |-> sessionId, resolved |-> <<>>]),
            !.socket.onAnswer = [sessionId |-> sessionId, call |-> Len(r.waits) + 1]]

\* socket.onmessage: JSON.parse, the callback of _onAnswer for its answer,
\* then onMessage
wsOnMessage(r, data) ==
  LET onAnswer == r.socket.onAnswer
      r1 == IF data.type = "answer" /\ onAnswer # Null
                 /\ data.sessionId = onAnswer.sessionId
              THEN [r EXCEPT !.waits[onAnswer.call].resolved = Append(@, data),
                             !.socket.onAnswer = Null]
              ELSE r
  IN onMessage([r1 EXCEPT !.socket.hello = @ \/ data.type = "hello",
                          !.socket.announced = @ \cup announcedBy(data)],
               data)

(***************************************************************************)
(* services/store.ts: store.session and the sessions that write to it.     *)
(*                                                                         *)
(* The operators take and give the record a: store.session and runs, one   *)
(* entry per call of startSendSession or acceptOffer.  A run holds what    *)
(* its sendFiles or receiveFiles has reached: the handshake, the transfer  *)
(* of file i of its list with curr bytes reported, the end.  overlapped    *)
(* records that a run was started while another had not ended.             *)
(***************************************************************************)
NewApp ==
  [session |-> [state |-> "idle", curr |-> 0, total |-> 1, fileState |-> <<>>],
   runs |-> <<>>, overlapped |-> FALSE]

\* files.reduce((acc, file) => acc + file.size, 0)
RECURSIVE totalSize(_)
totalSize(files) == IF files = <<>> THEN 0 ELSE Head(files).size + totalSize(Tail(files))

\* Object.values(fileState).reduce((acc, file) => acc + file.curr, 0)
RECURSIVE totalCurr(_)
totalCurr(fileState) ==
  IF DOMAIN fileState = {} THEN 0
  ELSE LET id == CHOOSE x \in DOMAIN fileState : TRUE
       IN fileState[id].curr + totalCurr([y \in DOMAIN fileState \ {id} |-> fileState[y]])

\* the fileState record of every file of a list, all pending
pendingFileState(files) ==
  [id \in {files[k].id : k \in 1..Len(files)} |->
     LET file == files[CHOOSE k \in 1..Len(files) : files[k].id = id]
     IN [id |-> id, curr |-> 0, total |-> file.size, state |-> "pending"]]

activeRuns(a) == {k \in 1..Len(a.runs) : a.runs[k].pc # "ended"}

newRun(a, kind, files) ==
  [a EXCEPT !.runs = Append(@, [kind |-> kind, pc |-> "handshake", files |-> files,
                                i |-> 1, curr |-> 0]),
            !.overlapped = @ \/ activeRuns(a) # {}]

\* startSendSession up to the await of sendFiles
startSendSession(a, files) ==
  LET fileDtoList == convertFileListToDto(files)
      a1 == [a EXCEPT !.session = [state |-> "sending", curr |-> 0,
                                   total |-> totalSize(fileDtoList),
                                   fileState |-> pendingFileState(fileDtoList)]]
  IN newRun(a1, "send", fileDtoList)

\* acceptOffer up to the await of receiveFiles
acceptOffer(a) == newRun([a EXCEPT !.session.state = "receiving"], "receive", <<>>)

\* the finally block of startSendSession and of acceptOffer
sessionFinally(a, k) == [a EXCEPT !.session.state = "idle", !.runs[k].pc = "ended"]

\* the selectFiles callback acceptOffer passes to receiveFiles: every file
\* is selected
storeSelectFiles(a, k, files) ==
  [a EXCEPT !.session.curr = 0,
            !.session.total = totalSize(files),
            !.session.fileState = pendingFileState(files),
            !.runs[k].files = files, !.runs[k].pc = "transfer",
            !.runs[k].i = 1, !.runs[k].curr = 0]

\* store.session.fileState[id] is undefined: writing a property of it is a
\* TypeError
fileStateMissing(session, id) == id \notin DOMAIN session.fileState

\* onFileProgress of the store
storeOnFileProgress(session, progress) ==
  LET s1 == [session EXCEPT !.fileState[progress.id].curr = progress.curr]
      s2 == [s1 EXCEPT !.curr = totalCurr(s1.fileState)]
  IN IF "success" \in DOMAIN progress /\ progress.success
       THEN [s2 EXCEPT !.fileState[progress.id].state = "finished"]
       ELSE s2

\* a run calls onFileProgress: the exception of a missing fileState leaves
\* sendFiles or receiveFiles and reaches the finally block
reportProgress(a, k, progress) ==
  IF fileStateMissing(a.session, progress.id)
    THEN sessionFinally(a, k)
    ELSE [a EXCEPT !.session = storeOnFileProgress(a.session, progress)]

\* the onFilesSkip callback startSendSession passes to sendFiles
storeOnFilesSkip(session, skipped) ==
  [session EXCEPT !.fileState =
     [id \in DOMAIN @ |-> IF \E k \in 1..Len(skipped) : skipped[k] = id
                            THEN [@[id] EXCEPT !.state = "skipped"] ELSE @[id]]]

\* sendFiles has the receiver's selection: skipped files are reported, the
\* list is filtered, the first file starts
runStartTransfer(a, k, fileTokens) ==
  LET run == a.runs[k]
      skippedFiles == skippedFileIds(run.files, fileTokens)
      filtered == filterSelected(run.files, fileTokens)
  IN IF \E j \in 1..Len(skippedFiles) : fileStateMissing(a.session, skippedFiles[j])
       THEN sessionFinally(a, k)
     ELSE LET a1 == IF Len(skippedFiles) > 0
                      THEN [a EXCEPT !.session = storeOnFilesSkip(@, skippedFiles)]
                      ELSE a
          IN IF Len(filtered) = 0
               THEN sessionFinally(a1, k)
               ELSE [a1 EXCEPT !.runs[k].files = filtered, !.runs[k].pc = "transfer",
                               !.runs[k].i = 1, !.runs[k].curr = 0]

\* the bytes of file i a run has still to report block by block: sendFiles
\* reports full blocks only, receiveFiles every block
runRemaining(run) ==
  LET size == run.files[run.i].size
  IN IF run.kind = "send" THEN ((size - run.curr) \div CHUNK_SIZE) * CHUNK_SIZE
     ELSE size - run.curr

\* one block of file i went out or came in: onFileProgress({ id, curr })
runBlock(a, k) ==
  LET run == a.runs[k]
      curr == run.curr + Min(CHUNK_SIZE, runRemaining(run))
  IN reportProgress([a EXCEPT !.runs[k].curr = curr], k,
                    [id |-> run.files[run.i].id, curr |-> curr])

\* file i is complete: sendFiles reports the file's size with the status it
\* received, receiveFiles the bytes it counted with success
runFileDone(a, k) ==
  LET run == a.runs[k]
      curr == IF run.kind = "send" THEN run.files[run.i].size ELSE run.curr
      a1 == reportProgress(a, k, [id |-> run.files[run.i].id, curr |-> curr,
                                  success |-> TRUE])
  IN IF a1.runs[k].pc = "ended" THEN a1
     ELSE IF run.i < Len(run.files)
       THEN [a1 EXCEPT !.runs[k].i = @ + 1, !.runs[k].curr = 0]
       ELSE [a1 EXCEPT !.runs[k].pc = "closing"]


(***************************************************************************)
(* The states of the harnesses while another specification runs.         *)
(***************************************************************************)
NewSender(fileDtoList) ==
  [pc |-> "start", error |-> "none",
   localNonce |-> <<>>, remoteNonce |-> <<>>, nonce |-> <<>>,
   localToken |-> <<>>, remoteToken |-> <<>>,
   remotePin |-> "", pinTry |-> 0,
   fileDtoList |-> fileDtoList, fileTokens |-> <<>>, skippedFiles |-> <<>>,
   pairDeclined |-> FALSE, chunks |-> <<>>,
   i |-> 0, buffer |-> <<>>, bytesSent |-> 0, pos |-> 0]

NewReceiver ==
  [pc |-> "receiveNonce", error |-> "none",
   localNonce |-> <<>>, remoteNonce |-> <<>>, nonce |-> <<>>,
   localToken |-> <<>>, remoteToken |-> <<>>,
   remotePin |-> "", pinTry |-> 0,
   chunks |-> <<>>, fileList |-> <<>>,
   selectedFilesMap |-> <<>>, selectedFilesTokens |-> <<>>,
   fileState |-> NoFileState]

NewDataChannel ==
  [side \in Sides |-> [buffer |-> <<>>, bufferedAmount |-> 0, state |-> "open"]]

NewStream == [side \in Sides |-> [queue |-> <<>>, locked |-> FALSE, threw |-> FALSE]]

\* the streams once receiveFiles awaits the initiator's nonce: readNext of
\* receiveNonce holds a reader on the responder's stream
ReceiverStream == [NewStream EXCEPT !["receiver"] = getReader(@)]

NewObs ==
  [sent |-> [side \in Sides |-> <<>>],
   progress |-> [side \in Sides |-> <<>>],
   onFilesSkip |-> <<>>,
   saved |-> <<>>,
   latePin |-> FALSE]

IdleEnv ==
  [files |-> <<>>, pin |-> [sender |-> NoPin, receiver |-> NoPin],
   readSizes |-> {}, manifestLen |-> SmallJsonLen,
   seed |-> [sender |-> 1, receiver |-> 1], key |-> [sender |-> 1, receiver |-> 2],
   publicKey |-> [sender |-> 1, receiver |-> 2]]

IdleHs ==
  [pc |-> "idle", initiatorNonce |-> <<>>, responderNonce |-> <<>>,
   toResponder |-> <<>>, toInitiator |-> <<>>,
   initiatorMaterial |-> <<>>, responderMaterial |-> <<>>]

IdleWebrtc ==
  /\ snd = [NewSender(<<>>) EXCEPT !.pc = "idle"]
  /\ rcv = [NewReceiver EXCEPT !.pc = "idle"]
  /\ dataChannel = NewDataChannel
  /\ stream = NewStream
  /\ env = IdleEnv
  /\ obs = NewObs

IdleStore == relay = NewRelay /\ app = NewApp

IdleB64 == [binary |-> <<>>, base64 |-> <<>>, decoded |-> <<>>, pc |-> "idle"]

IdleSession == IdleWebrtc /\ IdleStore /\ b64 = IdleB64

NoTamper == [kind |-> "none", pos |-> "none", how |-> "none"]

IdleTok ==
  [pc |-> "idle", selectedParams |-> "rsaPss", key |-> 0, nonce |-> <<>>,
   token |-> <<>>, tamper |-> NoTamper, original |-> <<>>,
   presented |-> 0, verifyMs |-> 0, result |-> "none"]

(***************************************************************************)
(* The token harness.  A process boots (optionally switching to Ed25519),  *)
(* generates a key pair, generates one ClientToken, from the current       *)
(* timestamp or from handshake nonce material; the token may be altered on *)
(* its way; verifyToken is then applied to it with some public key at some *)
(* later time.                                                             *)
(***************************************************************************)
\* Date.now() when the token is generated, in ms
ClockStartMs == 10000123

\* how long after generation the token is verified, in ms
VerifyDelaysMs == {0, 60 * 60 * 1000, (60 * 60 + 1) * 1000}

\* the lengths of the peer nonces the handshake accepts that the model draws
PeerNonceLens == {16, 32}

B64Url == replaceAll(replaceAll(B64Std, "+", "-"), "/", "_")

B64UrlValue(c) == (CHOOSE i \in 1..64 : B64Url[i] = c) - 1

\* one character of a base64url field replaced by another
AlterChar(c, how) ==
  CASE how = "next" -> B64Url[((B64UrlValue(c) + 1) % 64) + 1]
    [] how = "skip" -> B64Url[((B64UrlValue(c) + 4) % 64) + 1]
    [] how = "bad"  -> "!"

AlterField(field, pos, how) ==
  LET i == IF pos = "first" THEN 1 ELSE Len(field)
  IN [field EXCEPT ![i] = AlterChar(field[i], how)]

FieldIndex(kind) ==
  CASE kind = "hash" -> 2 [] kind = "salt" -> 3 [] kind = "sign" -> 5
    [] kind = "hashMethod" -> 1 [] kind = "signMethod" -> 4

OtherIdentifier(id) ==
  IF id = cryptoParams.rsaPss.identifier
    THEN cryptoParams.ed25519.identifier
    ELSE cryptoParams.rsaPss.identifier

AlterToken(token, t) ==
  LET parts == split(token)
  IN CASE t.kind \in {"hash", "salt", "sign"} ->
            join([parts EXCEPT ![FieldIndex(t.kind)] = AlterField(@, t.pos, t.how)])
       [] t.kind = "hashMethod" -> join([parts EXCEPT ![1] = chars_sha512])
       [] t.kind = "signMethod" -> join([parts EXCEPT ![4] = OtherIdentifier(@)])
       [] t.kind = "parts" ->
            IF t.how = "drop" THEN join(SubSeq(parts, 1, 4))
            ELSE join(parts \o <<(<<"A">>)>>)

Tamperings ==
  [kind : {"hash", "salt", "sign"}, pos : {"first", "last"}, how : {"next", "skip", "bad"}]
  \cup [kind : {"hashMethod", "signMethod"}, pos : {"none"}, how : {"none"}]
  \cup [kind : {"parts"}, pos : {"none"}, how : {"drop", "add"}]

TokInit == tok = [IdleTok EXCEPT !.pc = "boot"]

upgradeToEd25519IfSupported(supported) ==
  /\ tok.pc = "boot"
  /\ tok' = [tok EXCEPT !.pc = "ready",
                        !.selectedParams = IF supported THEN "ed25519" ELSE @]
  /\ UNCHANGED notTok

TokGenerateKeyPair(k) ==
  /\ tok.pc = "ready"
  /\ tok' = [tok EXCEPT !.pc = "keyed", !.key = k]
  /\ UNCHANGED notTok

TokFromCurrentTimestamp ==
  /\ tok.pc = "keyed"
  /\ LET t == generateClientTokenFromCurrentTimestamp(
                cryptoParams[tok.selectedParams], generateKeyPair(tok.key), ClockStartMs)
     IN tok' = [tok EXCEPT !.pc = "signed", !.nonce = unixTimestampU64(ClockStartMs),
                           !.token = t, !.original = t]
  /\ UNCHANGED notTok

\* the nonce material of a handshake: the initiator's nonce, then the responder's
TokFromNonce(s1, s2, len) ==
  /\ tok.pc = "keyed"
  /\ LET nonce == generateNonce(s1) \o randomBytes(s2, len)
         t == generateClientTokenFromNonce(
                cryptoParams[tok.selectedParams], generateKeyPair(tok.key), nonce)
     IN tok' = [tok EXCEPT !.pc = "signed", !.nonce = nonce, !.token = t, !.original = t]
  /\ UNCHANGED notTok

TokTamper(t) ==
  /\ tok.pc = "signed"
  /\ tok' = [tok EXCEPT !.pc = "tampered", !.tamper = t, !.token = AlterToken(@, t)]
  /\ UNCHANGED notTok

TokVerify(publicKey, delayMs) ==
  /\ tok.pc \in {"signed", "tampered"}
  /\ tok' = [tok EXCEPT !.pc = "verified", !.presented = publicKey,
                        !.verifyMs = ClockStartMs + delayMs,
                        !.result = verifyToken(cryptoParams[tok.selectedParams], publicKey,
                                               tok.token, ClockStartMs + delayMs)]
  /\ UNCHANGED notTok

TokNext ==
  \/ \E supported \in BOOLEAN : upgradeToEd25519IfSupported(supported)
  \/ \E k \in 1..MaxKeys : TokGenerateKeyPair(k)
  \/ TokFromCurrentTimestamp
  \/ \E s1, s2 \in 1..MaxNonceSeeds, len \in PeerNonceLens : TokFromNonce(s1, s2, len)
  \/ \E t \in Tamperings : TokTamper(t)
  \/ \E k \in 1..MaxKeys, d \in VerifyDelaysMs : TokVerify(k, d)

TokInitAll == TokInit /\ sc = NewStreamController /\ hs = IdleHs /\ IdleSession

SpecToken == TokInitAll /\ [][TokNext]_vars

(***************************************************************************)
(* The StreamController harness: adds, handle creation, pulls, breaks and  *)
(* releases in any order.                                                  *)
(***************************************************************************)
ScInit == sc = NewStreamController

ScAdd ==
  /\ Len(sc.added) < MaxAdds
  /\ sc' = add(sc, Len(sc.added) + 1)
  /\ UNCHANGED notSc

ScCreateAsyncIterator ==
  /\ Len(sc.handles) < MaxHandles
  /\ sc' = createAsyncIterator(sc)
  /\ UNCHANGED notSc

ScNext(h) ==
  /\ sc.handles[h].state \in {"suspendedStart", "suspendedYield"}
  /\ sc' = iteratorNext(sc, h)
  /\ UNCHANGED notSc

ScReturn(h) ==
  /\ sc.handles[h].state \in {"suspendedStart", "suspendedYield"}
  /\ sc' = iteratorReturn(sc, h)
  /\ UNCHANGED notSc

ScReleaseLock(h, legacy) ==
  /\ sc' = releaseLock(sc, h, legacy)
  /\ UNCHANGED notSc

StreamNext ==
  \/ ScAdd
  \/ ScCreateAsyncIterator
  \/ \E h \in 1..Len(sc.handles) : ScNext(h)
  \/ \E h \in 1..Len(sc.handles) : ScReturn(h)
  \/ \E h \in 1..Len(sc.handles), legacy \in BOOLEAN : ScReleaseLock(h, legacy)

ScInitAll == ScInit /\ tok = IdleTok /\ hs = IdleHs /\ IdleSession

SpecStream == ScInitAll /\ [][StreamNext]_vars

(***************************************************************************)
(* The nonce harness: the nonce exchange of sendFiles and receiveFiles     *)
(* between an initiator and a responder whose nonces have any length the   *)
(* peer may choose: the initiator's nonce goes over the wire as base64url, *)
(* the responder validates it, answers with its own, and each side puts    *)
(* the nonce material together.                                            *)
(***************************************************************************)
\* the nonce lengths drawn: the bounds of validateNonce, this program's own
\* length, lengths around them
NonceLens == {15, 16, 31, 32, 128, 129}

HsNonces == {randomBytes(seed, len) : seed \in 1..MaxNonceSeeds, len \in NonceLens}

HsInit ==
  hs \in {[IdleHs EXCEPT !.pc = "opened", !.initiatorNonce = a, !.responderNonce = b] :
            a \in HsNonces, b \in HsNonces}

\* sendFiles: the local nonce goes out
HsInitiatorSends ==
  /\ hs.pc = "opened"
  /\ hs' = [hs EXCEPT !.pc = "sent", !.toResponder = encodeBase64(hs.initiatorNonce)]
  /\ UNCHANGED notHs

\* receiveFiles: receiveNonce, the local nonce goes out, nonce material
HsResponderAnswers ==
  /\ hs.pc = "sent"
  /\ LET m == StrMsg([nonce |-> hs.toResponder])
     IN IF receiveNonceError(m) # "none"
          THEN hs' = [hs EXCEPT !.pc = "responderThrew"]
          ELSE hs' = [hs EXCEPT !.pc = "answered",
                                !.toInitiator = encodeBase64(hs.responderNonce),
                                !.responderMaterial =
                                   receiverNonce(hs.responderNonce, receiveNonce(m))]
  /\ UNCHANGED notHs

\* sendFiles: receiveNonce, nonce material
HsInitiatorReceives ==
  /\ hs.pc = "answered"
  /\ LET m == StrMsg([nonce |-> hs.toInitiator])
     IN IF receiveNonceError(m) # "none"
          THEN hs' = [hs EXCEPT !.pc = "initiatorThrew"]
          ELSE hs' = [hs EXCEPT !.pc = "exchanged",
                                !.initiatorMaterial =
                                   senderNonce(hs.initiatorNonce, receiveNonce(m))]
  /\ UNCHANGED notHs

NonceNext ==
  \/ HsInitiatorSends
  \/ HsResponderAnswers
  \/ HsInitiatorReceives

HsInitAll == HsInit /\ tok = IdleTok /\ sc = NewStreamController /\ IdleSession

SpecNonce == HsInitAll /\ [][NonceNext]_vars

(***************************************************************************)
(* The session: sendFiles on one side, receiveFiles on the other, the data *)
(* channel between them.  Each action is one task of one side: it takes    *)
(* what the side awaited (a message, a resolved callback, a drained        *)
(* buffer) and runs the code up to the next await.                         *)
(***************************************************************************)
State ==
  [snd |-> snd, rcv |-> rcv, dataChannel |-> dataChannel, stream |-> stream,
   env |-> env, obs |-> obs]

Commit(st) ==
  /\ snd' = st.snd
  /\ rcv' = st.rcv
  /\ dataChannel' = st.dataChannel
  /\ stream' = st.stream
  /\ obs' = st.obs
  /\ env' = env
  /\ UNCHANGED notSess

\* the next message of a side's stream, and the state once it is taken
hasNext(side) == stream[side].queue # <<>> /\ ~stream[side].threw

front(side) == Head(stream[side].queue)

\* dataChannelStream.readNext(): one item is taken and the handle released
readNext(st, side) ==
  [st EXCEPT !.stream[side] = readerReleaseLock([@ EXCEPT !.queue = Tail(@)])]


\* one pull of a handle's asyncIterator
asyncIteratorNext(st, side) == [st EXCEPT !.stream[side].queue = Tail(@)]

\* the PIN every PinConfig of the model holds, and what a user may enter
\* ("": the prompt is dismissed)
ConfiguredPin == "1111"

PinInputs == {"", "1111", "2222"}

\* dataChannel.onmessage of a side: the transport delivers the oldest
\* message the peer has buffered
onmessage(side) ==
  /\ dataChannel[side].state = "open"
  /\ dataChannel[Peer(side)].state = "open"
  /\ dataChannel[Peer(side)].buffer # <<>>
  /\ dataChannel' = [dataChannel EXCEPT
                       ![Peer(side)].buffer = Tail(@),
                       ![Peer(side)].bufferedAmount =
                          @ - messageBytes(Head(dataChannel[Peer(side)].buffer))]
  /\ stream' = [stream EXCEPT ![side].queue = Append(@, Head(dataChannel[Peer(side)].buffer))]
  /\ UNCHANGED <<snd, rcv, env, obs, notSess>>

\* the initiator is any implementation of the protocol: one that was told
\* TOO_MANY_ATTEMPTS may still submit a PIN, the right one
peerPinAfterTooMany ==
  /\ snd.pc = "threw" /\ snd.error = "Too many attempts"
  /\ ~obs.latePin
  /\ dataChannel["sender"].state = "open"
  /\ Commit([sendJson(State, "sender", [pin |-> env.pin.receiver.pin])
               EXCEPT !.obs.latePin = TRUE])

\* the statuses with which a responder refuses a token: the one of the
\* protocol, and one this implementation does not know
RefusalStatuses == {"INVALID_SIGNATURE", "UNAVAILABLE"}

\* the responder is any implementation of the protocol: one that verifies
\* the initiator's token answers a token signed with another key with a
\* refusal and stops
peerTokenResponse(status) ==
  /\ rcv.pc = "remoteToken" /\ hasNext("receiver")
  /\ env.key.sender # env.publicKey.sender
  /\ Commit([sendJson(readNext(State, "receiver"), "receiver", [status |-> status])
               EXCEPT !.rcv.pc = "foreign"])

sendFiles_open ==
  /\ snd.pc = "start"
  /\ Commit(sendNonce(State))

sendFiles_receiveNonce ==
  /\ snd.pc = "receiveNonce" /\ hasNext("sender")
  /\ Commit(sendToken(readNext(State, "sender"), front("sender")))

sendFiles_tokenResponse ==
  /\ snd.pc = "tokenResponse" /\ hasNext("sender")
  /\ Commit(tokenResponse(readNext(State, "sender"), front("sender")))

sendFiles_onPin(input) ==
  /\ snd.pc = "onPin"
  /\ Commit(handlePin(State, "sender", input))

sendFiles_pinResponse ==
  /\ snd.pc = "pinResponse" /\ hasNext("sender")
  /\ Commit(senderPinResponse(readNext(State, "sender"), front("sender")))

sendFiles_remotePin ==
  /\ snd.pc = "remotePin" /\ hasNext("sender")
  /\ Commit(senderRemotePin(readNext(State, "sender"), front("sender")))

\* waitBufferEmpty after TOO_MANY_ATTEMPTS, then return
sendFiles_waitBufferEmpty ==
  /\ snd.pc = "waitBufferEmpty"
  /\ waitBufferEmpty(dataChannel, "sender")
  /\ Commit([State EXCEPT !.snd.pc = "returned"])

\* receiveStringFromChunks: binary messages are collected, a string ends it
sendFiles_fileListResponse ==
  /\ snd.pc = "fileListResponse" /\ hasNext("sender")
  /\ LET m == front("sender")
         st == asyncIteratorNext(State, "sender")
     IN IF m.kind = "bin"
          THEN Commit([st EXCEPT !.snd.chunks = Append(@, m.data)])
          ELSE Commit(fileListResponse(forAwaitReturn(st, "sender"), st.snd.chunks))

sendFiles_readValue(n) ==
  /\ snd.pc = "read"
  /\ snd.pos < currentFile(State).size
  /\ Commit(readValue(State, n))

sendFiles_readDone ==
  /\ snd.pc = "read"
  /\ snd.pos = currentFile(State).size
  /\ Commit(readDone(State))

\* the 50 ms poll finds bufferedAmount at or below MAX_BUFFERED_AMOUNT
sendFiles_backpressure ==
  /\ snd.pc = "backpressure"
  /\ bufferedAmount(dataChannel, "sender") <= MAX_BUFFERED_AMOUNT
  /\ Commit(sendChunks(State))

sendFiles_fileStatus ==
  /\ snd.pc = "fileStatus" /\ hasNext("sender")
  /\ Commit(fileStatus(readNext(State, "sender"), front("sender")))

receiveFiles_receiveNonce ==
  /\ rcv.pc = "receiveNonce" /\ hasNext("receiver")
  /\ Commit(answerNonce(readNext(State, "receiver"), front("receiver")))

receiveFiles_remoteToken ==
  /\ rcv.pc = "remoteToken" /\ hasNext("receiver")
  /\ Commit(answerToken(readNext(State, "receiver"), front("receiver")))

receiveFiles_remotePin ==
  /\ rcv.pc = "remotePin" /\ hasNext("receiver")
  /\ Commit(receiverRemotePin(readNext(State, "receiver"), front("receiver")))

receiveFiles_waitBufferEmpty ==
  /\ rcv.pc \in {"waitBufferEmpty", "waitBufferEmptyBreak"}
  /\ waitBufferEmpty(dataChannel, "receiver")
  /\ Commit(receiverBufferEmpty(State))

receiveFiles_pinSendingResponse ==
  /\ rcv.pc = "pinSendingResponse" /\ hasNext("receiver")
  /\ LET m == front("receiver")
         st == asyncIteratorNext(State, "receiver")
     IN IF m.kind = "bin"
          THEN Commit([st EXCEPT !.rcv.chunks = Append(@, m.data)])
          ELSE Commit(pinSendingResponse(forAwaitReturn(st, "receiver"), st.rcv.chunks))

receiveFiles_onPin(input) ==
  /\ rcv.pc = "onPin"
  /\ Commit(handlePin(State, "receiver", input))

receiveFiles_pinResponse ==
  /\ rcv.pc = "pinResponse" /\ hasNext("receiver")
  /\ LET m == front("receiver")
         st == asyncIteratorNext(State, "receiver")
     IN IF m.kind = "bin"
          THEN Commit([st EXCEPT !.rcv.chunks = Append(@, m.data)])
          ELSE Commit(receiverPinResponse(forAwaitReturn(st, "receiver"), st.rcv.chunks))

receiveFiles_selectFiles(selectedFiles) ==
  /\ rcv.pc = "selectFiles"
  /\ Commit(selectFiles(State, selectedFiles))

receiveFiles_chunk ==
  /\ rcv.pc = "chunk" /\ hasNext("receiver")
  /\ Commit(receiveChunk(asyncIteratorNext(State, "receiver"), front("receiver")))

(***************************************************************************)
(* The sessions the model runs: the files and their sizes, the sizes of    *)
(* the reads of a file's stream, the PinConfig of each side, the random    *)
(* draws of the nonces, the length of the file list's JSON text.           *)
(***************************************************************************)
FileSizes == {0, CHUNK_SIZE, 2 * CHUNK_SIZE + 1}

ReadSizes == {CHUNK_SIZE - 1, 2 * CHUNK_SIZE + 1}

\* a file that fills the send buffer beyond MAX_BUFFERED_AMOUNT, and the
\* size of the reads of its stream
BigFileSize == MAX_BUFFERED_AMOUNT + CHUNK_SIZE + 1

BigReadSize == 4 * CHUNK_SIZE

FileLists == UNION {[1..k -> FileSizes] : k \in 1..MaxFiles}

PinConfigs == {NoPin} \cup {PinConfig(ConfiguredPin, t) : t \in 1..MaxTries}

BaseEnv ==
  [files |-> <<1>>, pin |-> [sender |-> NoPin, receiver |-> NoPin],
   readSizes |-> ReadSizes, manifestLen |-> SmallJsonLen,
   seed |-> [sender |-> 1, receiver |-> 2], key |-> [sender |-> 1, receiver |-> 2],
   publicKey |-> [sender |-> 1, receiver |-> 2]]

\* a key pair that is not the one whose public key the peer holds
ImpostorKey == MaxKeys + 1

Envs ==
  {[BaseEnv EXCEPT !.files = files] : files \in FileLists}
  \cup {[BaseEnv EXCEPT !.pin = [sender |-> ps, receiver |-> pr], !.manifestLen = len] :
          ps \in PinConfigs, pr \in PinConfigs, len \in {SmallJsonLen, CHUNK_SIZE + 1}}
  \cup {[BaseEnv EXCEPT !.seed = [sender |-> s1, receiver |-> s2]] :
          s1 \in 1..MaxNonceSeeds, s2 \in 1..MaxNonceSeeds}
  \cup {[BaseEnv EXCEPT !.files = <<BigFileSize>>, !.readSizes = {BigReadSize}]}
  \cup {[BaseEnv EXCEPT !.key[side] = ImpostorKey] : side \in Sides}

Init ==
  /\ env \in Envs
  /\ snd = NewSender(convertFileListToDto(env.files))
  /\ rcv = NewReceiver
  /\ dataChannel = NewDataChannel
  /\ stream = ReceiverStream
  /\ obs = NewObs
  /\ tok = IdleTok
  /\ sc = NewStreamController
  /\ hs = IdleHs
  /\ IdleStore
  /\ b64 = IdleB64

Next ==
  \/ \E side \in Sides : onmessage(side)
  \/ sendFiles_open
  \/ sendFiles_receiveNonce
  \/ sendFiles_tokenResponse
  \/ \E input \in PinInputs : sendFiles_onPin(input)
  \/ sendFiles_pinResponse
  \/ sendFiles_remotePin
  \/ sendFiles_waitBufferEmpty
  \/ sendFiles_fileListResponse
  \/ \E n \in env.readSizes : sendFiles_readValue(n)
  \/ sendFiles_readDone
  \/ sendFiles_backpressure
  \/ sendFiles_fileStatus
  \/ receiveFiles_receiveNonce
  \/ receiveFiles_remoteToken
  \/ receiveFiles_remotePin
  \/ receiveFiles_waitBufferEmpty
  \/ receiveFiles_pinSendingResponse
  \/ \E input \in PinInputs : receiveFiles_onPin(input)
  \/ receiveFiles_pinResponse
  \/ \E selectedFiles \in SUBSET {rcv.fileList[j].id : j \in 1..Len(rcv.fileList)} :
       receiveFiles_selectFiles(selectedFiles)
  \/ receiveFiles_chunk
  \/ peerPinAfterTooMany
  \/ \E status \in RefusalStatuses : peerTokenResponse(status)

Spec == Init /\ [][Next]_vars

\* the session with a transport that delivers what is buffered as long as
\* both ends are open.  The tasks of the two functions need no fairness
\* for what is checked under it: a side suspended with an empty stream on
\* a closed channel has no task to run.
FairSpec == Spec /\ WF_vars(\E side \in Sides : onmessage(side))

(***************************************************************************)
(* sendFiles against receiveFiles with no PinConfig on either side and a   *)
(* selection of at least one file.  onPin and the PIN exchanges are never  *)
(* entered.  Every step is the continuation of a settled promise, a timer  *)
(* of the pacing loop or the delivery of a buffered message, and the       *)
(* event loop runs one of them as long as one is ready.                    *)
(***************************************************************************)
NoPinEnvs == {e \in Envs : ~e.pin["sender"].enabled /\ ~e.pin["receiver"].enabled}

NoPinInit == Init /\ env \in NoPinEnvs

NoPinNext ==
  \/ \E side \in Sides : onmessage(side)
  \/ sendFiles_open
  \/ sendFiles_receiveNonce
  \/ sendFiles_tokenResponse
  \/ sendFiles_fileListResponse
  \/ \E n \in env.readSizes : sendFiles_readValue(n)
  \/ sendFiles_readDone
  \/ sendFiles_backpressure
  \/ sendFiles_fileStatus
  \/ receiveFiles_receiveNonce
  \/ receiveFiles_remoteToken
  \/ receiveFiles_waitBufferEmpty
  \/ receiveFiles_pinSendingResponse
  \/ \E selectedFiles \in
         (SUBSET {rcv.fileList[j].id : j \in 1..Len(rcv.fileList)}) \ {{}} :
       receiveFiles_selectFiles(selectedFiles)
  \/ receiveFiles_chunk

\* a message is buffered on a channel open at both ends
Deliverable(side) ==
  /\ dataChannel[side].state = "open"
  /\ dataChannel[Peer(side)].state = "open"
  /\ dataChannel[Peer(side)].buffer # <<>>

\* sendFiles has a continuation to run: the channel open event, a message
\* in its stream while it awaits one, a read of the file, or the timer of
\* the pacing loop with the buffer at or under the threshold
SenderReady ==
  \/ snd.pc = "start"
  \/ /\ snd.pc \in {"receiveNonce", "tokenResponse", "fileListResponse", "fileStatus"}
     /\ hasNext("sender")
  \/ snd.pc = "read"
  \/ /\ snd.pc = "backpressure"
     /\ bufferedAmount(dataChannel, "sender") <= MAX_BUFFERED_AMOUNT

\* receiveFiles has a continuation to run: a message in its stream while
\* it awaits one, the selection of the user, or its buffer drained
ReceiverReady ==
  \/ /\ rcv.pc \in {"receiveNonce", "remoteToken", "pinSendingResponse", "chunk"}
     /\ hasNext("receiver")
  \/ rcv.pc = "selectFiles" /\ rcv.fileList # <<>>
  \/ /\ rcv.pc \in {"waitBufferEmpty", "waitBufferEmptyBreak"}
     /\ waitBufferEmpty(dataChannel, "receiver")

NoPinReady == (\E side \in Sides : Deliverable(side)) \/ SenderReady \/ ReceiverReady

\* the event loop: weak fairness of the step, its enabling condition
\* written as the guards of its actions
EventLoop == []<>~NoPinReady \/ []<><<NoPinNext>>_vars

SpecNoPin ==
  /\ NoPinInit /\ [][NoPinNext]_vars
  /\ WF_vars(\E side \in Sides : onmessage(side))
  /\ EventLoop

(***************************************************************************)
(* sendFiles against receiveFiles with a PinConfig on one side or on both, *)
(* the configured pin the empty string or not, maxTries from 0.            *)
(***************************************************************************)
AnyPinConfigs == {PinConfig(p, t) : p \in {"", ConfiguredPin}, t \in 0..MaxTries}

AnyPinEnvs ==
  {[BaseEnv EXCEPT !.pin = [sender |-> ps, receiver |-> pr]] :
     ps \in AnyPinConfigs \cup {NoPin}, pr \in AnyPinConfigs \cup {NoPin}}
  \ {BaseEnv}

AnyPinInit ==
  /\ env \in AnyPinEnvs
  /\ snd = NewSender(convertFileListToDto(env.files))
  /\ rcv = NewReceiver
  /\ dataChannel = NewDataChannel
  /\ stream = ReceiverStream
  /\ obs = NewObs
  /\ tok = IdleTok
  /\ sc = NewStreamController
  /\ hs = IdleHs
  /\ IdleStore
  /\ b64 = IdleB64

AnyPinNext ==
  \/ \E side \in Sides : onmessage(side)
  \/ sendFiles_open
  \/ sendFiles_receiveNonce
  \/ sendFiles_tokenResponse
  \/ \E input \in PinInputs : sendFiles_onPin(input)
  \/ sendFiles_pinResponse
  \/ sendFiles_remotePin
  \/ sendFiles_waitBufferEmpty
  \/ sendFiles_fileListResponse
  \/ \E n \in env.readSizes : sendFiles_readValue(n)
  \/ sendFiles_readDone
  \/ sendFiles_fileStatus
  \/ receiveFiles_receiveNonce
  \/ receiveFiles_remoteToken
  \/ receiveFiles_remotePin
  \/ receiveFiles_waitBufferEmpty
  \/ receiveFiles_pinSendingResponse
  \/ \E input \in PinInputs : receiveFiles_onPin(input)
  \/ receiveFiles_pinResponse
  \/ \E selectedFiles \in SUBSET {rcv.fileList[j].id : j \in 1..Len(rcv.fileList)} :
       receiveFiles_selectFiles(selectedFiles)
  \/ receiveFiles_chunk
  \/ peerPinAfterTooMany

SpecAnyPin == AnyPinInit /\ [][AnyPinNext]_vars

(***************************************************************************)
(* receiveFiles facing an initiator that is any implementation of the      *)
(* protocol.  The initiator sends one of the messages of the protocol,     *)
(* whatever receiveFiles expects, each time receiveFiles has taken all it  *)
(* was sent and awaits a message, and the initiator has received all that  *)
(* receiveFiles sent.  Nonces of other lengths are sent as the first       *)
(* message only; once the reply to the file list, with the tokens, is out  *)
(* the initiator sends headers, blocks and the delimiter, in any order.    *)
(***************************************************************************)
ForeignSender == [NewSender(<<>>) EXCEPT !.pc = "foreign"]

\* a string that is no token of randomString
UnmintedToken == "0.9"

\* the file list of the initiator, and an id that is not in it
PeerFileList == convertFileListToDto(env.files)

PeerHeaderIds == {PeerFileList[k].id : k \in 1..Len(PeerFileList)} \cup {"9"}

PeerSenderInputs ==
  [kind : {"nonce", "shortNonce", "longNonce", "token", "fileList", "block", "delimiter"},
   a : {""}, b : {""}]
  \cup [kind : {"pin"}, a : {ConfiguredPin, "2222"}, b : {""}]
  \cup [kind : {"status"}, a : {"PIN_REQUIRED", "TOO_MANY_ATTEMPTS"}, b : {""}]
  \cup [kind : {"header"}, a : PeerHeaderIds, b : {"minted", "other"}]

\* receiveFiles is suspended on a message
receiverAwaits ==
  rcv.pc \in {"receiveNonce", "remoteToken", "remotePin", "pinSendingResponse",
              "pinResponse", "chunk"}

\* the messages of one input of the initiator
peerSenderMessages(st, input) ==
  CASE input.kind = "nonce" ->
         <<StrMsg([nonce |-> encodeBase64(generateNonce(st.env.seed.sender))])>>
    [] input.kind = "shortNonce" ->
         <<StrMsg([nonce |-> encodeBase64(randomBytes(st.env.seed.sender, 15))])>>
    [] input.kind = "longNonce" ->
         <<StrMsg([nonce |-> encodeBase64(randomBytes(st.env.seed.sender, 129))])>>
    [] input.kind = "token" ->
         <<StrMsg([token |-> generateClientTokenFromNonce(
                               selectedParams, signingKey(st, "sender"),
                               senderNonce(generateNonce(st.env.seed.sender),
                                           st.rcv.localNonce))])>>
    [] input.kind = "pin" -> <<StrMsg([pin |-> input.a])>>
    [] input.kind = "status" ->
         stringChunks(encodeJson([status |-> input.a], SmallJsonLen), 0)
           \o <<StrMsg(DelimiterJson)>>
    [] input.kind = "fileList" ->
         stringChunks(encodeJson([status |-> "OK", files |-> PeerFileList], SmallJsonLen), 0)
           \o <<StrMsg(DelimiterJson)>>
    [] input.kind = "header" ->
         <<StrMsg([id |-> input.a,
                   token |-> IF input.b = "minted" /\ input.a \in DOMAIN st.rcv.selectedFilesTokens
                               THEN st.rcv.selectedFilesTokens[input.a]
                               ELSE UnmintedToken])>>
    [] input.kind = "block" ->
         <<BinMsg(fileBytes(IF st.rcv.fileState.set THEN st.rcv.fileState.id ELSE "0",
                            st.rcv.fileState.curr, st.rcv.fileState.curr + CHUNK_SIZE))>>
    [] input.kind = "delimiter" -> <<StrMsg(DelimiterJson)>>

peer_send(input) ==
  /\ snd.pc = "foreign"
  /\ receiverAwaits
  /\ dataChannel["sender"].state = "open"
  /\ dataChannel["sender"].buffer = <<>> /\ stream["receiver"].queue = <<>>
  /\ dataChannel["receiver"].buffer = <<>>
  /\ input.kind = "header" => rcv.pc = "chunk"
  /\ rcv.pc = "chunk" => input.kind \in {"header", "block", "delimiter"}
  /\ input.kind \in {"shortNonce", "longNonce"} => rcv.pc = "receiveNonce"
  /\ Len(obs.sent["sender"]) + Len(peerSenderMessages(State, input)) <= MaxPeerMessages
  /\ Commit(sendAll(State, "sender", peerSenderMessages(State, input)))

ForeignSenderEnvs ==
  {[BaseEnv EXCEPT !.files = <<CHUNK_SIZE, 0>>, !.pin.receiver = pr] :
     pr \in {NoPin, PinConfig(ConfiguredPin, 1)}}

ForeignSenderInit ==
  /\ env \in ForeignSenderEnvs
  /\ snd = ForeignSender
  /\ rcv = NewReceiver
  /\ dataChannel = NewDataChannel
  /\ stream = ReceiverStream
  /\ obs = NewObs
  /\ tok = IdleTok
  /\ sc = NewStreamController
  /\ hs = IdleHs
  /\ IdleStore
  /\ b64 = IdleB64

ForeignSenderNext ==
  \/ \E side \in Sides : onmessage(side)
  \/ \E input \in PeerSenderInputs : peer_send(input)
  \/ receiveFiles_receiveNonce
  \/ receiveFiles_remoteToken
  \/ receiveFiles_remotePin
  \/ receiveFiles_waitBufferEmpty
  \/ receiveFiles_pinSendingResponse
  \/ \E input \in PinInputs : receiveFiles_onPin(input)
  \/ receiveFiles_pinResponse
  \/ \E selectedFiles \in SUBSET {rcv.fileList[j].id : j \in 1..Len(rcv.fileList)} :
       receiveFiles_selectFiles(selectedFiles)
  \/ receiveFiles_chunk

SpecForeignSender == ForeignSenderInit /\ [][ForeignSenderNext]_vars

(***************************************************************************)
(* sendFiles facing a responder that is any implementation of the          *)
(* protocol.  The responder sends one message each time sendFiles has      *)
(* taken all it was sent and awaits a message, and the responder has       *)
(* received all that sendFiles sent: a message of the kind sendFiles       *)
(* awaits, with any of the contents of that kind, or a binary message.     *)
(***************************************************************************)
ForeignReceiver == [NewReceiver EXCEPT !.pc = "foreign"]

\* the error text of a failed file
PeerError == "disk full"

PeerReceiverInputs ==
  [kind : {"nonce", "tokenResponse"}, a : {"OK", "PIN_REQUIRED", "INVALID_SIGNATURE"}]
  \cup [kind : {"status"}, a : {"OK", "PIN_REQUIRED", "TOO_MANY_ATTEMPTS"}]
  \cup [kind : {"pin"}, a : {ConfiguredPin, "2222"}]
  \cup [kind : {"selection"}, a : {"all", "first", "PAIR", "DECLINED"}]
  \cup [kind : {"outcome"}, a : {"success", "failure"}]
  \cup [kind : {"block"}, a : {""}]

\* sendFiles is suspended on a message
senderAwaits ==
  snd.pc \in {"receiveNonce", "tokenResponse", "pinResponse", "remotePin",
              "fileListResponse", "fileStatus"}

\* the tokens of a selection of the file list
peerFileTokens(fileDtoList, which) ==
  [id \in {fileDtoList[k].id :
             k \in 1..(IF which = "first" THEN Min(1, Len(fileDtoList)) ELSE Len(fileDtoList))}
     |-> randomString(1)]

\* the messages of one input of the responder
peerReceiverMessages(st, input) ==
  CASE input.kind = "nonce" ->
         <<StrMsg([nonce |-> encodeBase64(generateNonce(st.env.seed.receiver))])>>
    [] input.kind = "tokenResponse" ->
         <<StrMsg([status |-> input.a,
                   token |-> generateClientTokenFromNonce(
                               selectedParams, signingKey(st, "receiver"),
                               receiverNonce(generateNonce(st.env.seed.receiver),
                                             st.snd.localNonce))])>>
    [] input.kind = "status" -> <<StrMsg([status |-> input.a])>>
    [] input.kind = "pin" -> <<StrMsg([pin |-> input.a])>>
    [] input.kind = "selection" ->
         stringChunks(encodeJson(
                        IF input.a \in {"PAIR", "DECLINED"}
                          THEN [status |-> input.a]
                          ELSE [status |-> "OK",
                                files |-> peerFileTokens(st.snd.fileDtoList, input.a)],
                        SmallJsonLen), 0)
           \o <<StrMsg(DelimiterJson)>>
    [] input.kind = "outcome" ->
         <<StrMsg(IF input.a = "success"
                    THEN [id |-> IF st.snd.pc = "fileStatus" THEN currentFile(st).id ELSE "0",
                          success |-> TRUE]
                    ELSE [id |-> IF st.snd.pc = "fileStatus" THEN currentFile(st).id ELSE "0",
                          success |-> FALSE, error |-> PeerError])>>
    [] input.kind = "block" -> <<BinMsg(fileBytes("0", 0, 1))>>

\* the message sendFiles awaits at each of its positions
PeerAnswerKind ==
  [receiveNonce |-> "nonce", tokenResponse |-> "tokenResponse", pinResponse |-> "status",
   remotePin |-> "pin", fileListResponse |-> "selection", fileStatus |-> "outcome"]

peer_answer(input) ==
  /\ rcv.pc = "foreign"
  /\ senderAwaits
  /\ input.kind \in {PeerAnswerKind[snd.pc], "block"}
  /\ dataChannel["receiver"].state = "open"
  /\ dataChannel["receiver"].buffer = <<>> /\ stream["sender"].queue = <<>>
  /\ dataChannel["sender"].buffer = <<>>
  /\ Len(obs.sent["receiver"]) + Len(peerReceiverMessages(State, input)) <= MaxPeerMessages
  /\ Commit(sendAll(State, "receiver", peerReceiverMessages(State, input)))

ForeignReceiverEnvs ==
  {[BaseEnv EXCEPT !.files = <<CHUNK_SIZE + 1, 0>>, !.readSizes = {CHUNK_SIZE},
                   !.pin.sender = ps] :
     ps \in {NoPin, PinConfig(ConfiguredPin, 1)}}

ForeignReceiverInit ==
  /\ env \in ForeignReceiverEnvs
  /\ snd = NewSender(convertFileListToDto(env.files))
  /\ rcv = ForeignReceiver
  /\ dataChannel = NewDataChannel
  /\ stream = NewStream
  /\ obs = NewObs
  /\ tok = IdleTok
  /\ sc = NewStreamController
  /\ hs = IdleHs
  /\ IdleStore
  /\ b64 = IdleB64

ForeignReceiverNext ==
  \/ \E side \in Sides : onmessage(side)
  \/ \E input \in PeerReceiverInputs : peer_answer(input)
  \/ sendFiles_open
  \/ sendFiles_receiveNonce
  \/ sendFiles_tokenResponse
  \/ \E input \in PinInputs : sendFiles_onPin(input)
  \/ sendFiles_pinResponse
  \/ sendFiles_remotePin
  \/ sendFiles_waitBufferEmpty
  \/ sendFiles_fileListResponse
  \/ \E n \in env.readSizes : sendFiles_readValue(n)
  \/ sendFiles_readDone
  \/ sendFiles_fileStatus

SpecForeignReceiver == ForeignReceiverInit /\ [][ForeignReceiverNext]_vars

(***************************************************************************)
(* The relay connection on its own: connectionLoop, the WebSocket events   *)
(* and the roster messages of the relay.  The relay sends hello first on   *)
(* every connection, then join, update and left.                           *)
(***************************************************************************)
Aliases == {"a", "b"}

PeerInfos == [id : 1..MaxPeers, alias : Aliases]

\* the local client as the relay names it
LocalClient == [id |-> 0, alias |-> "a"]

\* the rosters a hello can carry: peers of distinct ids, in id order
HelloPeers ==
  {ps \in UNION {[1..k -> PeerInfos] : k \in 0..MaxPeers} :
     \A i, j \in 1..Len(ps) : i < j => ps[i].id < ps[j].id}

rosterIds(r) == {r.peers[k].id : k \in 1..Len(r.peers)}

\* what the relay can send next on the open connection
RelayMessages(r) ==
  IF ~r.socket.hello
    THEN {[type |-> "hello", client |-> LocalClient, peers |-> ps] : ps \in HelloPeers}
    ELSE {[type |-> "join", peer |-> p] : p \in {q \in PeerInfos : q.id \notin rosterIds(r)}}
         \cup {[type |-> "update", peer |-> p] :
                 p \in {q \in PeerInfos : q.id \in rosterIds(r)}}
         \cup {[type |-> "left", peerId |-> i] : i \in rosterIds(r)}

RelayCommit(r) == relay' = r /\ UNCHANGED notRelay

\* the client infos setupConnection is called with
ClientInfos == {[alias |-> a] : a \in Aliases}

relay_setupConnection(info) ==
  /\ relay.attempts < MaxAttempts
  /\ RelayCommit(setupConnection(relay, info))

relay_onopen ==
  /\ relay.pc = "connecting"
  /\ RelayCommit(wsOnOpen(relay))

relay_onerror ==
  /\ relay.pc = "connecting"
  /\ RelayCommit(wsOnError(relay))

relay_retry ==
  /\ relay.pc = "backoff"
  /\ relay.attempts < MaxAttempts
  /\ RelayCommit(retry(relay))

relay_onclose ==
  /\ relay.pc = "waitUntilClose"
  /\ relay.attempts < MaxAttempts
  /\ RelayCommit(wsOnClose(relay))

relay_onmessage(data) ==
  /\ relay.pc = "waitUntilClose"
  /\ RelayCommit(wsOnMessage(relay, data))

RelayNext ==
  \/ \E info \in ClientInfos : relay_setupConnection(info)
  \/ relay_onopen
  \/ relay_onerror
  \/ relay_retry
  \/ relay_onclose
  \/ \E data \in RelayMessages(relay) : relay_onmessage(data)

RelayInit ==
  /\ relay = NewRelay
  /\ app = NewApp
  /\ b64 = IdleB64
  /\ tok = IdleTok
  /\ sc = NewStreamController
  /\ hs = IdleHs
  /\ IdleWebrtc

SpecRelay == RelayInit /\ [][RelayNext]_vars

(***************************************************************************)
(* One relay connection under any relay: messages of every type, in any    *)
(* order and with any content, reach socket.onmessage.  received is the    *)
(* message last delivered and delivered their number.                      *)
(***************************************************************************)
SessionIds == 1..MaxSessions

RosterMessages ==
  {[type |-> "hello", client |-> LocalClient, peers |-> ps] : ps \in HelloPeers}
  \cup {[type |-> t, peer |-> p] : t \in {"join", "joined", "update"}, p \in PeerInfos}
  \cup {[type |-> "left", peerId |-> i] : i \in 1..MaxPeers}
  \cup {[type |-> t, sessionId |-> s] : t \in {"offer", "answer"}, s \in SessionIds}

\* socket.onmessage with its onMessage callback, acceptOffer included
signaling_onmessage(data) ==
  /\ relay.pc = "waitUntilClose"
  /\ relay.socket.delivered < MaxDelivered
  /\ data.type = "offer" => Len(app.runs) < MaxSessions
  /\ relay' = [wsOnMessage(relay, data) EXCEPT !.socket.received = data,
                                                !.socket.delivered = @ + 1]
  /\ app' = IF data.type = "offer" THEN acceptOffer(app) ELSE app
  /\ UNCHANGED <<tok, sc, hs, sessVars, b64>>

RosterNext ==
  \/ \E info \in ClientInfos : relay_setupConnection(info)
  \/ relay_onopen
  \/ \E data \in RosterMessages : signaling_onmessage(data)

SpecRoster == RelayInit /\ [][RosterNext]_vars

(***************************************************************************)
(* The answers of one relay connection: sendFiles calls waitForAnswer with *)
(* the sessionId it has drawn, and startSendSession can be called while    *)
(* another call of it awaits its answer.                                   *)
(***************************************************************************)
AnswerMessages ==
  {[type |-> t, sessionId |-> s] : t \in {"offer", "answer"}, s \in SessionIds}
  \cup {[type |-> "hello", client |-> LocalClient, peers |-> <<>>]}

\* sendFiles reaches waitForAnswer with a sessionId no other call has drawn
signaling_waitForAnswer(sessionId) ==
  /\ relay.pc = "waitUntilClose"
  /\ Len(relay.waits) < MaxSessions
  /\ \A k \in 1..Len(relay.waits) : relay.waits[k].sessionId # sessionId
  /\ RelayCommit(waitForAnswer(relay, sessionId))

AnswerNext ==
  \/ \E info \in ClientInfos : relay_setupConnection(info)
  \/ relay_onopen
  \/ \E sessionId \in SessionIds : signaling_waitForAnswer(sessionId)
  \/ \E data \in AnswerMessages : signaling_onmessage(data)

SpecAnswer == RelayInit /\ [][AnswerNext]_vars

(***************************************************************************)
(* store.session on its own: sessions started by the user                  *)
(* (startSendSession, while the session dialog is not shown) and by the    *)
(* offer messages of the relay (acceptOffer), each run reduced to the      *)
(* callbacks its sendFiles or receiveFiles makes, in their order.          *)
(***************************************************************************)
StoreFileSizes == {0, CHUNK_SIZE + 1}

StoreFileLists == UNION {[1..k -> StoreFileSizes] : k \in 1..MaxFiles}

AppCommit(a) == app' = a /\ UNCHANGED notApp

\* the user picks files for a peer
app_startSendSession(files) ==
  /\ app.session.state = "idle"
  /\ Len(app.runs) < MaxSessions
  /\ AppCommit(startSendSession(app, files))

\* case "offer" of onMessage
app_offer ==
  /\ Len(app.runs) < MaxSessions
  /\ AppCommit(acceptOffer(app))

\* receiveFiles has the sender's file list and calls selectFiles
app_selectFiles(k, files) ==
  /\ app.runs[k].kind = "receive" /\ app.runs[k].pc = "handshake"
  /\ AppCommit(storeSelectFiles(app, k, convertFileListToDto(files)))

\* sendFiles has the receiver's answer to the file list
app_fileListResponse(k, selected) ==
  /\ app.runs[k].kind = "send" /\ app.runs[k].pc = "handshake"
  /\ AppCommit(runStartTransfer(app, k, [id \in selected |-> randomString(1)]))

app_block(k) ==
  /\ app.runs[k].pc = "transfer"
  /\ runRemaining(app.runs[k]) > 0
  /\ AppCommit(runBlock(app, k))

app_fileDone(k) ==
  /\ app.runs[k].pc = "transfer"
  /\ runRemaining(app.runs[k]) = 0
  /\ AppCommit(runFileDone(app, k))

\* sendFiles or receiveFiles returns after the last file
app_return(k) ==
  /\ app.runs[k].pc = "closing"
  /\ AppCommit(sessionFinally(app, k))

\* sendFiles or receiveFiles returns or throws during the handshake
app_abort(k) ==
  /\ app.runs[k].pc = "handshake"
  /\ AppCommit(sessionFinally(app, k))

StoreNext ==
  \/ \E files \in StoreFileLists : app_startSendSession(files)
  \/ app_offer
  \/ \E k \in 1..Len(app.runs), files \in StoreFileLists : app_selectFiles(k, files)
  \/ \E k \in 1..Len(app.runs) :
       \E selected \in SUBSET {app.runs[k].files[j].id : j \in 1..Len(app.runs[k].files)} :
         app_fileListResponse(k, selected)
  \/ \E k \in 1..Len(app.runs) : app_block(k)
  \/ \E k \in 1..Len(app.runs) : app_fileDone(k)
  \/ \E k \in 1..Len(app.runs) : app_return(k)
  \/ \E k \in 1..Len(app.runs) : app_abort(k)

StoreInit ==
  /\ app = NewApp
  /\ relay = NewRelay
  /\ b64 = IdleB64
  /\ tok = IdleTok
  /\ sc = NewStreamController
  /\ hs = IdleHs
  /\ IdleWebrtc

SpecStore == StoreInit /\ [][StoreNext]_vars

(***************************************************************************)
(* utils/base64.ts alone: a byte sequence is encoded, the text decoded.    *)
(***************************************************************************)
\* bytes whose sextets cover "A", "+", "/" and a mixed pattern
Base64Bytes == {0, 104, 251, 255}

Base64Binaries == UNION {[1..n -> Base64Bytes] : n \in 0..MaxBytes}

b64_encodeBase64 ==
  /\ b64.pc = "binary"
  /\ b64' = [b64 EXCEPT !.base64 = encodeBase64(b64.binary), !.pc = "encoded"]
  /\ UNCHANGED notB64

b64_decodeBase64 ==
  /\ b64.pc = "encoded"
  /\ b64' = IF decodeBase64Throws(b64.base64)
              THEN [b64 EXCEPT !.pc = "threw"]
              ELSE [b64 EXCEPT !.decoded = decodeBase64(b64.base64), !.pc = "decoded"]
  /\ UNCHANGED notB64

Base64Next == b64_encodeBase64 \/ b64_decodeBase64

Base64Init ==
  /\ tok = IdleTok /\ sc = NewStreamController /\ hs = IdleHs
  /\ IdleWebrtc /\ IdleStore
  /\ \E binary \in Base64Binaries : b64 = [IdleB64 EXCEPT !.binary = binary, !.pc = "binary"]

SpecBase64 == Base64Init /\ [][Base64Next]_vars

(***************************************************************************)
(* Claims about the StreamController.                                      *)
(***************************************************************************)
IsPrefix(s, t) == Len(s) <= Len(t) /\ SubSeq(t, 1, Len(s)) = s

\* C2: the values yielded across all handles, in order, are a prefix of the
\* values added, and the rest is still queued in add order: nothing is lost,
\* duplicated or reordered.
C2_YieldedPrefixOfAdded ==
  /\ IsPrefix(sc.yielded, sc.added)
  /\ sc.yielded \o sc.queue = sc.added

\* the test's run: three values added before any handle exists, the first
\* handle yields two and is left by break, a fourth value is added, a fresh
\* handle yields the third and the fourth
C2_Witness ==
  /\ Len(sc.handles) = 2
  /\ sc.preAdded = 3
  /\ sc.handles[1].state = "completed" /\ sc.handles[1].count = 2
  /\ sc.handles[2].count = 2
  /\ sc.yielded = <<1, 2, 3, 4>>

(***************************************************************************)
(* Claims about the ClientToken.                                           *)
(***************************************************************************)
TokFields(token) == split(token)

\* the token is verified as generated, with the signer's key, at once
TokHonest ==
  /\ tok.pc = "verified"
  /\ tok.tamper = NoTamper
  /\ tok.presented = tok.key
  /\ tok.verifyMs = ClockStartMs

\* the token's nonce is a timestamp older than the freshness window
TokStale ==
  /\ Len(tok.nonce) = 8
  /\ (tok.verifyMs \div 1000) - (ClockStartMs \div 1000) > 60 * 60

\* C7 (as claimed): ClientToken round trip.  A token generated by
\* generateClientTokenFromNonce from any nonce the handshake can produce, and
\* from the current timestamp, verifies under the signer's public key.
C7_RoundTrip == TokHonest => tok.result = "true"

\* C7 (what the code does give): the round trip succeeds for the 8-byte
\* timestamp salt of generateClientTokenFromCurrentTimestamp, and only for it.
C7_TimestampOnly == TokHonest => (tok.result = "true" <=> Len(tok.nonce) = 8)

C7_Witness == TokHonest /\ Len(tok.nonce) = 8 /\ tok.result = "true"

\* the altered field's text is not valid base64
TokFieldUndecodable ==
  /\ tok.tamper.kind \in {"salt", "sign"}
  /\ decodeBase64Throws(TokFields(tok.token)[FieldIndex(tok.tamper.kind)])

\* the altered field decodes to other bytes than the generated one
TokFieldBytesChanged ==
  /\ tok.tamper.kind \in {"salt", "sign"}
  /\ ~TokFieldUndecodable
  /\ decodeBase64(TokFields(tok.token)[FieldIndex(tok.tamper.kind)])
       # decodeBase64(TokFields(tok.original)[FieldIndex(tok.tamper.kind)])

TokRejectable ==
  \/ tok.tamper.kind # "none"
  \/ tok.presented # tok.key
  \/ TokStale

\* C8 (as claimed): verifyToken returns false for every token altered in its
\* hash, salt or signature field, with a part count other than five, with an
\* unrecognized hash or sign method tag, presented with another public key,
\* or older than the freshness window.
C8_AlteredReturnsFalse == (tok.pc = "verified" /\ TokRejectable) => tok.result = "false"

\* C8 (amended): verifyToken returns false in each of those cases where the
\* altered salt or signature field is valid base64 text that decodes to other
\* bytes; it never returns true when the field is not valid base64 (it throws
\* then, and only then); an alteration of the text that leaves the decoded
\* bytes as they were is outside the claim.
C8_AlteredRejected ==
  tok.pc = "verified" =>
    /\ (tok.tamper.kind \in {"hash", "hashMethod", "signMethod", "parts"}
          => tok.result = "false")
    /\ (TokFieldBytesChanged => tok.result = "false")
    /\ (TokFieldUndecodable => tok.result \in {"false", "throw"})
    /\ ((tok.presented # tok.key \/ TokStale) /\ ~TokFieldUndecodable
          /\ (tok.tamper.kind \in {"salt", "sign"} => TokFieldBytesChanged)
          => tok.result = "false")
    /\ (tok.result = "throw" => TokFieldUndecodable)

\* a token that verifies as generated is rejected once a byte of its
\* signature is altered
C8_Witness ==
  /\ tok.pc = "verified"
  /\ Len(tok.nonce) = 8
  /\ tok.presented = tok.key
  /\ ~TokStale
  /\ tok.tamper.kind = "sign"
  /\ TokFieldBytesChanged
  /\ tok.result = "false"

(***************************************************************************)
(* Claims about the nonce exchange.                                        *)
(***************************************************************************)
\* C9: after the nonce exchange the initiator and the responder hold the
\* same nonce material, the initiator's nonce followed by the responder's,
\* whatever the lengths of the two nonces.
C9_SameNonceMaterial ==
  /\ hs.pc \in {"answered", "exchanged"} =>
       hs.responderMaterial = hs.initiatorNonce \o hs.responderNonce
  /\ hs.pc = "exchanged" =>
       /\ hs.initiatorMaterial = hs.initiatorNonce \o hs.responderNonce
       /\ hs.initiatorMaterial = hs.responderMaterial

\* an exchange of a 16-byte nonce and a 128-byte nonce
C9_Witness ==
  /\ hs.pc = "exchanged"
  /\ Len(hs.initiatorNonce) = 16
  /\ Len(hs.responderNonce) = 128
  /\ Len(hs.initiatorMaterial) = 144

(***************************************************************************)
(* Claims about the session.                                               *)
(***************************************************************************)
\* the file list sendFiles was called with
Manifest == convertFileListToDto(env.files)

indexOfId(id) == CHOOSE k \in 1..Len(Manifest) : Manifest[k].id = id

fileSize(id) == Manifest[indexOfId(id)].size

IsFileBlock(m) == m.kind = "bin" /\ m.data # <<>> /\ "file" \in DOMAIN m.data[1].src

\* a file header: { id, token }
IsHeader(m) == m.kind = "str" /\ "id" \in DOMAIN m.json /\ "token" \in DOMAIN m.json

\* the number of binary messages that follow position k of a log up to the
\* next string message
BlocksAfter(log, k) ==
  CHOOSE n \in 0..(Len(log) - k) :
    /\ \A j \in 1..n : log[k + j].kind = "bin"
    /\ k + n = Len(log) \/ log[k + n + 1].kind # "bin"

\* a string message ends the blocks that follow position k
BlocksEnded(log, k) == k + BlocksAfter(log, k) < Len(log)

\* the blocks that follow position k, put together in order, are the first
\* bytes of the file id: each block is the bytes of the file from where the
\* block before it ended, the first from byte 0
BlocksArePrefix(log, k, id) ==
  \A j \in 1..BlocksAfter(log, k) :
    LET data == log[k + j].data
    IN /\ Len(data) = 1
       /\ data[1].src = [file |-> id]
       /\ data[1].lo = (IF j = 1 THEN 0 ELSE log[k + j - 1].data[1].hi)
       /\ data[1].hi > data[1].lo

\* the number of bytes in the blocks that follow position k
BlocksLength(log, k) ==
  IF BlocksAfter(log, k) = 0 THEN 0 ELSE log[k + BlocksAfter(log, k)].data[1].hi

\* C1: the blocks sendFileInChunks emits for a file, in send order, put
\* together are the file's bytes from the first on, and all of them once the
\* next header or the delimiter is sent; what the receiver accumulates for a
\* file is the same bytes, and what it saves is the whole file.
C1_RoundTrip ==
  /\ \A k \in 1..Len(obs.sent["sender"]) :
       IsHeader(obs.sent["sender"][k]) =>
         LET id == obs.sent["sender"][k].json.id
         IN /\ BlocksArePrefix(obs.sent["sender"], k, id)
            /\ BlocksEnded(obs.sent["sender"], k) =>
                 BlocksLength(obs.sent["sender"], k) = fileSize(id)
  /\ rcv.fileState.set =>
       rcv.fileState.chunks = fileBytes(rcv.fileState.id, 0, rcv.fileState.curr)
  /\ \A k \in 1..Len(obs.saved) :
       obs.saved[k].blob = fileBytes(obs.saved[k].id, 0, fileSize(obs.saved[k].id))

\* a file of two blocks and one byte, read in pieces one byte short of a
\* block: the receiver holds the first block, which spans two reads, and the
\* sender's buffer holds the two bytes less than a block it has left of them
C1_Witness ==
  /\ snd.pc = "read"
  /\ currentFile(State).size = 2 * CHUNK_SIZE + 1
  /\ byteLength(snd.buffer) = CHUNK_SIZE - 2
  /\ rcv.fileState.set
  /\ rcv.fileState.chunks = fileBytes(rcv.fileState.id, 0, CHUNK_SIZE)

\* the reply to the file list has arrived and fileTokens is set
SelectionKnown ==
  \/ snd.pc \in {"read", "backpressure", "fileStatus", "done"}
  \/ snd.pc = "threw" /\ snd.error = "TypeError: firstFileDto is undefined"

ManifestIds == {Manifest[k].id : k \in 1..Len(Manifest)}

HeaderIds == fileIds([k \in 1..Len(SelectSeq(obs.sent["sender"], IsHeader)) |->
                        SelectSeq(obs.sent["sender"], IsHeader)[k].json])

\* C3: when the reply's token map covers a strict subset S of the manifest
\* ids, onFilesSkip is called once, with the manifest ids not in S; headers
\* are sent for ids of S only, each once and in manifest order, all of them
\* by the end; file bytes are sent for ids of S only, after the id's header.
C3_SkipExactlyUnselected ==
  LET S == DOMAIN snd.fileTokens
      selected == fileIds(SelectSeq(Manifest, LAMBDA file : file.id \in S))
      unselected == fileIds(SelectSeq(Manifest, LAMBDA file : file.id \notin S))
  IN (SelectionKnown /\ S \subseteq ManifestIds /\ S # ManifestIds) =>
       /\ obs.onFilesSkip = <<unselected>>
       /\ IsPrefix(HeaderIds, selected)
       /\ snd.pc = "done" => HeaderIds = selected
       /\ \A k \in 1..Len(obs.sent["sender"]) :
            LET m == obs.sent["sender"][k]
            IN /\ IsFileBlock(m) => \A j \in 1..Len(m.data) : m.data[j].src.file \in S
               /\ IsHeader(m) =>
                    /\ m.json.id \in S
                    /\ BlocksArePrefix(obs.sent["sender"], k, m.json.id)
                    /\ snd.pc = "done" =>
                         BlocksLength(obs.sent["sender"], k) = fileSize(m.json.id)

\* two files, the second one selected: the first is reported skipped, the
\* second is sent whole
C3_Witness ==
  /\ Len(Manifest) = 2
  /\ fileSize("1") > 0
  /\ snd.pc = "done"
  /\ DOMAIN snd.fileTokens = {"1"}
  /\ obs.onFilesSkip = <<(<<"0">>)>>
  /\ HeaderIds = <<"1">>

\* the PINs the initiator has submitted, in order
Submissions ==
  LET pins == SelectSeq(obs.sent["sender"],
                        LAMBDA m : m.kind = "str" /\ "pin" \in DOMAIN m.json)
  IN [k \in 1..Len(pins) |-> pins[k].json.pin]

\* the statuses the responder has sent in string messages
ResponderStatuses ==
  {obs.sent["receiver"][k].json.status :
     k \in {j \in 1..Len(obs.sent["receiver"]) :
              /\ obs.sent["receiver"][j].kind = "str"
              /\ "status" \in DOMAIN obs.sent["receiver"][j].json}}

\* receiveFiles is past its PIN loop, at the manifest phase or beyond it
ResponderPastPin ==
  rcv.pc \notin {"idle", "receiveNonce", "remoteToken", "remotePin", "waitBufferEmpty"}

\* C4: once the responder has read a k-th submission, k <= maxTries, that is
\* the configured PIN while all before it are not, it has sent OK, has sent
\* no TOO_MANY_ATTEMPTS, has read no further PIN and is at the manifest phase.
C4_CorrectPinAccepted ==
  LET pin == env.pin.receiver
  IN pin.enabled =>
       \A k \in 1..pin.maxTries :
         (/\ k <= rcv.pinTry
          /\ Submissions[k] = pin.pin
          /\ \A j \in 1..(k - 1) : Submissions[j] # pin.pin)
         => /\ "OK" \in ResponderStatuses
            /\ "TOO_MANY_ATTEMPTS" \notin ResponderStatuses
            /\ rcv.pinTry = k
            /\ ResponderPastPin

\* maxTries = 2: a wrong PIN, then the right one; the responder has sent OK
\* and has received the file list
C4_Witness ==
  /\ env.pin.receiver.enabled
  /\ env.pin.receiver.maxTries = 2
  /\ Submissions = <<"2222", ConfiguredPin>>
  /\ rcv.pinTry = 2
  /\ "OK" \in ResponderStatuses
  /\ rcv.pc = "selectFiles"

\* C5: once the responder has read maxTries submissions that all differ from
\* the configured PIN, it has sent TOO_MANY_ATTEMPTS, reads no further PIN,
\* and has sent no OK and no file tokens and holds no file data, whatever the
\* initiator submits afterwards.
C5_WrongPinsRejected ==
  LET pin == env.pin.receiver
  IN (/\ pin.enabled
      /\ rcv.pinTry >= pin.maxTries
      /\ \A j \in 1..pin.maxTries : Submissions[j] # pin.pin)
     => /\ "TOO_MANY_ATTEMPTS" \in ResponderStatuses
        /\ "OK" \notin ResponderStatuses
        /\ rcv.pinTry = pin.maxTries
        /\ rcv.pc \in {"waitBufferEmpty", "returned"}
        /\ \A k \in 1..Len(obs.sent["receiver"]) : obs.sent["receiver"][k].kind = "str"
        /\ DOMAIN rcv.selectedFilesTokens = {}
        /\ ~rcv.fileState.set
        /\ obs.saved = <<>>

\* after TOO_MANY_ATTEMPTS the initiator has submitted the right PIN, which
\* lies unread in the responder's stream; receiveFiles has returned
C5_Witness ==
  /\ env.pin.receiver.enabled
  /\ "TOO_MANY_ATTEMPTS" \in ResponderStatuses
  /\ rcv.pc = "returned"
  /\ obs.latePin
  /\ Len(Submissions) = env.pin.receiver.maxTries + 1
  /\ Last(Submissions) = env.pin.receiver.pin
  /\ stream["receiver"].queue = <<StrMsg([pin |-> env.pin.receiver.pin])>>

\* bufferedAmount as the k-th of the messages sent in one step finds it,
\* amount being what the step found
RECURSIVE bufferedBefore(_, _, _)
bufferedBefore(amount, msgs, k) ==
  IF k <= 1 THEN amount ELSE bufferedBefore(amount + messageBytes(msgs[1]), Tail(msgs), k - 1)

\* C6 (as claimed): every block of file bytes is sent in a state where
\* bufferedAmount is at or below MAX_BUFFERED_AMOUNT: in every step, each file
\* block the sender sends finds bufferedAmount, the blocks sent before it in
\* the step included, at or below 1 MiB.
C6_BlocksBelowHighWaterMark ==
  [][LET old == Len(obs.sent["sender"])
         new == SubSeq(obs.sent["sender"]', old + 1, Len(obs.sent["sender"]'))
     IN \A k \in 1..Len(new) :
          IsFileBlock(new[k]) =>
            bufferedBefore(dataChannel["sender"].bufferedAmount, new, k)
              <= MAX_BUFFERED_AMOUNT]_vars

\* C6 (what the code does give): every block of CHUNK_SIZE bytes that the
\* loop over the buffer sends finds bufferedAmount at or below 1 MiB; the
\* rest of the buffer sent at the end of the file is not so guarded.
C6_FullBlocksBelowHighWaterMark ==
  [][LET old == Len(obs.sent["sender"])
         new == SubSeq(obs.sent["sender"]', old + 1, Len(obs.sent["sender"]'))
     IN \A k \in 1..Len(new) :
          (IsFileBlock(new[k]) /\ snd.pos < currentFile(State).size) =>
            bufferedBefore(dataChannel["sender"].bufferedAmount, new, k)
              <= MAX_BUFFERED_AMOUNT]_vars

\* the token verifies against the nonce material and the public key: it has
\* five parts with the known method tags, its salt is the nonce material, its
\* hash is the recomputed hash of key and nonce, and its signature is the
\* key owner's signature of that hash
tokenVerifies(publicKey, token, nonce) ==
  LET parts == split(token)
      digest == digestSha256(concatBytes(<<exportKey(publicKey), nonce>>))
  IN /\ Len(parts) = 5
     /\ parts[1] = chars_sha256
     /\ parts[4] = selectedParams.identifier
     /\ ~decodeBase64Throws(parts[3]) /\ decodeBase64(parts[3]) = nonce
     /\ parts[2] = encodeBase64(digest)
     /\ ~decodeBase64Throws(parts[5])
     /\ subtleVerify(publicKey, decodeBase64(parts[5]), digest)

\* the responder has answered the initiator's token with OK or PIN_REQUIRED
ResponderAcceptedToken ==
  \E k \in 1..Len(obs.sent["receiver"]) :
    LET m == obs.sent["receiver"][k]
    IN /\ m.kind = "str"
       /\ "token" \in DOMAIN m.json
       /\ m.json.status \in {"OK", "PIN_REQUIRED"}

\* the initiator has sent its file list
ManifestSent ==
  \E k \in 1..Len(obs.sent["sender"]) :
    LET m == obs.sent["sender"][k]
    IN /\ m.kind = "bin" /\ m.data # <<>>
       /\ "type" \in DOMAIN m.data[1].src
       /\ "files" \in DOMAIN m.data[1].src.json

\* C10 (as claimed): the responder answers OK or PIN_REQUIRED only to a token
\* that verifies against the nonce material and the initiator's public key,
\* and the initiator sends its file list only after a token of the responder
\* that verifies against the nonce material and the responder's public key.
C10_VerifiedBeforeManifest ==
  /\ ResponderAcceptedToken =>
       tokenVerifies(env.publicKey["sender"], rcv.remoteToken, rcv.nonce)
  /\ ManifestSent =>
       tokenVerifies(env.publicKey["receiver"], snd.remoteToken, snd.nonce)

\* what the code does give: tokens made by the holders of the presented keys
\* do verify, so that sessions between honest peers satisfy the claim
C10_HonestTokensVerify ==
  (env.key = env.publicKey) => C10_VerifiedBeforeManifest

(***************************************************************************)
(* Claims about the relay connection.                                      *)
(***************************************************************************)
\* C11: after any relay connection failure, a failed connect attempt or the
\* close of an established connection, connectionLoop makes its next
\* connect attempt only after the 5 s backoff: every attempt that follows a
\* failure was preceded by a wait of RETRY_DELAY_MS.
C11_BackoffBeforeEveryRetry ==
  relay.attempt.after # "none" => relay.attempt.waited >= RETRY_DELAY_MS

\* the part of C11 the code keeps: an attempt that follows a failed connect
\* attempt was preceded by the wait
C11_BackoffAfterFailedConnect ==
  relay.attempt.after = "error" => relay.attempt.waited >= RETRY_DELAY_MS

\* C12: from the close of the relay connection until the next hello is
\* processed, store.peers is empty and store.client is null; every peer of
\* the roster was announced on the current connection.
C12_RosterResetOnDisconnect ==
  /\ ~relay.socket.hello => (relay.peers = <<>> /\ relay.client = Null)
  /\ \A k \in 1..Len(relay.peers) : relay.peers[k] \in relay.socket.announced

\* a connection with a roster was closed, and the next connection has
\* brought its own roster
C12_Witness ==
  /\ relay.closes >= 1
  /\ relay.socket.hello
  /\ Len(relay.peers) = MaxPeers

(***************************************************************************)
(* Claims about store.session.                                             *)
(***************************************************************************)
\* C13: at most one run of sendFiles or receiveFiles is in progress at any
\* time, and store.session.state names the kind of the run in progress: an
\* offer that arrives during a session starts no second one and leaves the
\* state of the running one alone.
C13_OneSessionAtATime ==
  /\ Cardinality(activeRuns(app)) <= 1
  /\ \A k \in activeRuns(app) :
       app.session.state = (IF app.runs[k].kind = "send" THEN "sending" ELSE "receiving")

\* C17: in every reachable state every fileState has curr <= total, and
\* store.session.curr <= store.session.total.
C17_ProgressWithinTotal ==
  /\ \A id \in DOMAIN app.session.fileState :
       app.session.fileState[id].curr <= app.session.fileState[id].total
  /\ app.session.curr <= app.session.total

\* the part of C17 the code keeps: the bounds hold as long as no session
\* was started while another was running
C17_ProgressWithinTotalAlone == ~app.overlapped => C17_ProgressWithinTotal

(***************************************************************************)
(* Claims about the end of a session.                                      *)
(***************************************************************************)
\* sendFiles has returned on a token response that refuses its token
TokenRefused ==
  /\ snd.pc = "returned"
  /\ \E k \in 1..Len(obs.sent["receiver"]) :
       /\ obs.sent["receiver"][k].kind = "str"
       /\ Get(obs.sent["receiver"][k].json, "status") \in RefusalStatuses

\* C14: when the initiator receives a token response with status
\* INVALID_SIGNATURE or an unrecognized status, it closes the transport and
\* sends no manifest, header or file bytes: only its nonce and its token
\* were sent.
C14_RefusalClosesTransport ==
  TokenRefused =>
    /\ dataChannel["sender"].state = "closed"
    /\ Len(obs.sent["sender"]) = 2

\* the part of C14 the code keeps: nothing is sent after the refusal
C14_RefusalSendsNothing == TokenRefused => Len(obs.sent["sender"]) = 2

\* the position of a side
pcOf(side) == IF side = "sender" THEN snd.pc ELSE rcv.pc

\* the positions at which a side awaits a message of its StreamController
AwaitsMessage ==
  [sender |-> {"receiveNonce", "tokenResponse", "pinResponse", "remotePin",
               "fileListResponse", "fileStatus"},
   receiver |-> {"receiveNonce", "remoteToken", "remotePin", "pinSendingResponse",
                 "pinResponse", "chunk"}]

\* a side is suspended in readNext or in an iterator pull with nothing to read
Suspended(side) == pcOf(side) \in AwaitsMessage[side] /\ stream[side].queue = <<>>

\* sendFiles or receiveFiles of a side has returned or thrown
Terminated(side) == pcOf(side) \in {"done", "returned", "threw"}

\* an end of the data channel was closed
TransportClosed == \E side \in Sides : dataChannel[side].state = "closed"

\* C15: if the transport closes while sendFiles or receiveFiles is suspended
\* waiting for a control message, the suspended operation eventually
\* terminates (returns or throws) instead of waiting forever.
C15_ClosedTransportTerminates ==
  \A side \in Sides : (TransportClosed /\ Suspended(side)) ~> Terminated(side)

\* C16: neither side closes the data channel while its own outbound buffer
\* is non-empty: in every step in which sendFiles, receiveFiles or handlePin
\* closes a side's end of the channel, that side's bufferedAmount is 0, so
\* everything the side has sent, the last file status included, was
\* delivered.
C16_CloseOnlyWhenDrained ==
  [][\A side \in Sides :
       (dataChannel[side].state = "open" /\ dataChannel'[side].state = "closed") =>
         /\ dataChannel[side].bufferedAmount = 0
         /\ dataChannel'[side].bufferedAmount = 0
         /\ dataChannel'[side].buffer = <<>>]_vars

\* both sides have closed the channel after the last file, and the sender
\* has the status of every file it sent
C16_Witness ==
  /\ snd.pc = "done" /\ rcv.pc = "done"
  /\ dataChannel["sender"].state = "closed"
  /\ dataChannel["receiver"].state = "closed"
  /\ Len(SelectSeq(obs.progress["sender"], LAMBDA p : "success" \in DOMAIN p))
       = Len(snd.fileDtoList)
  /\ Len(snd.fileDtoList) = MaxFiles

\* C18: when a session completes, every file of store.session.fileState
\* whose state is finished has as its last reported progress (its curr) the
\* size declared for it (its total), on the sending and on the receiving
\* side, files of 0 bytes and files that are not a multiple of CHUNK_SIZE
\* included.
C18_FinishedFilesReportDeclaredSize ==
  \A k \in 1..Len(app.runs) :
    app.runs[k].pc = "closing" =>
      \A id \in DOMAIN app.session.fileState :
        app.session.fileState[id].state = "finished" =>
          app.session.fileState[id].curr = app.session.fileState[id].total

\* C18 as long as no session was started while another one ran
C18_FinishedFilesReportDeclaredSizeAlone ==
  ~app.overlapped => C18_FinishedFilesReportDeclaredSize

\* the progress reports of a side for the file with this id
progressOf(side, id) == SelectSeq(obs.progress[side], LAMBDA p : p.id = id)

\* C18, one session alone: when sendFiles and receiveFiles have completed,
\* the last progress each of them reported for a transferred file is the
\* file's declared size.
C18_LastProgressIsDeclaredSize ==
  /\ snd.pc = "done" =>
       \A k \in 1..Len(snd.fileDtoList) :
         LET reports == progressOf("sender", snd.fileDtoList[k].id)
         IN /\ reports # <<>>
            /\ reports[Len(reports)].curr = snd.fileDtoList[k].size
  /\ rcv.pc = "done" =>
       \A id \in DOMAIN rcv.selectedFilesMap :
         LET reports == progressOf("receiver", id)
         IN /\ reports # <<>>
            /\ reports[Len(reports)].curr = rcv.selectedFilesMap[id].size

(***************************************************************************)
(* Claims about utils/base64.ts.                                           *)
(***************************************************************************)
\* C19: encodeBase64 yields base64url without padding: its output holds no
\* "=", "+" or "/", only characters of the URL-safe alphabet, and
\* decodeBase64 gives back the bytes that were encoded, whatever their
\* number modulo 3.
C19_Base64UrlRoundTrip ==
  /\ b64.pc # "threw"
  /\ b64.pc \in {"encoded", "decoded"} =>
       /\ \A i \in 1..Len(b64.base64) :
            /\ b64.base64[i] \notin {"=", "+", "/"}
            /\ \E j \in 1..64 : B64Url[j] = b64.base64[i]
       /\ Len(b64.base64) = (4 * Len(b64.binary) + 2) \div 3
  /\ b64.pc = "decoded" => b64.decoded = b64.binary

\* a sequence of one byte more than a multiple of three whose encoding uses
\* both replaced characters was encoded and decoded
C19_Witness ==
  /\ b64.pc = "decoded"
  /\ Len(b64.binary) % 3 = 1 /\ Len(b64.binary) > 3
  /\ \E i \in 1..Len(b64.base64) : b64.base64[i] = "-"
  /\ \E i \in 1..Len(b64.base64) : b64.base64[i] = "_"

(***************************************************************************)
(* Claims about the order of the messages of the chunk phase.              *)
(***************************************************************************)
IsDelimiter(m) == m.kind = "str" /\ m.json = DelimiterJson

\* C20: in what sendFiles sends, the header {id, token} of the first
\* selected file precedes every byte of a file; the blocks that follow the
\* header of file j are bytes of file j only, and directly after the last of
\* them comes the header of file j + 1, or the delimiter after the last
\* file; while sendFiles waits for the status of a file that header or
\* delimiter is already sent; one delimiter is sent in the chunk phase and
\* it is the last message.
C20_HeaderOrdering ==
  LET log == obs.sent["sender"]
      headers == {k \in 1..Len(log) : IsHeader(log[k])}
      delimiters == {k \in 1..Len(log) : IsDelimiter(log[k]) /\ \E h \in headers : h < k}
      files == snd.fileDtoList
      nth(j) == CHOOSE k \in headers : Cardinality({x \in headers : x < k}) = j - 1
      n == Cardinality(headers)
  IN headers # {} =>
       /\ n <= Len(files)
       /\ \A j \in 1..n :
            log[nth(j)].json = [id |-> files[j].id, token |-> snd.fileTokens[files[j].id]]
       /\ \A k \in 1..(nth(1) - 1) :
            log[k].kind = "bin" =>
              \A s \in 1..Len(log[k].data) : "file" \notin DOMAIN log[k].data[s].src
       /\ \A j \in 1..n :
            LET k == nth(j)
                end == k + BlocksAfter(log, k) + 1
            IN /\ BlocksArePrefix(log, k, files[j].id)
               /\ end <= Len(log) =>
                    /\ BlocksLength(log, k) = files[j].size
                    /\ IF j < Len(files)
                         THEN j < n /\ end = nth(j + 1)
                         ELSE IsDelimiter(log[end]) /\ end = Len(log)
       /\ Cardinality(delimiters) <= 1
       /\ snd.pc = "fileStatus" => n + Cardinality(delimiters) = snd.i + 2
       /\ snd.pc = "done" => Cardinality(delimiters) = 1

\* sendFiles has sent two files, the first a whole number of blocks, and the
\* delimiter
C20_Witness ==
  /\ snd.pc = "done"
  /\ Len(snd.fileDtoList) = 2
  /\ snd.fileDtoList[1].size = CHUNK_SIZE
  /\ snd.fileDtoList[2].size = 2 * CHUNK_SIZE + 1
  /\ IsDelimiter(Last(obs.sent["sender"]))

(***************************************************************************)
(* Claims about the receive loop and the file outcomes.                    *)
(***************************************************************************)
\* the step in which the receive loop takes a string message while a file
\* is open
FinalizingStep ==
  /\ rcv.pc = "chunk" /\ rcv.fileState.set
  /\ stream["receiver"].queue # <<>>
  /\ Head(stream["receiver"].queue).kind = "str"
  /\ stream'["receiver"].queue = Tail(stream["receiver"].queue)

IsOutcome(m) == m.kind = "str" /\ "success" \in DOMAIN m.json

\* the outcomes among the messages of a sequence
OutcomesIn(msgs) == SelectSeq(msgs, IsOutcome)

\* the progress reports with which sendFiles passes an outcome on
OutcomeReports == SelectSeq(obs.progress["sender"], LAMBDA p : "success" \in DOMAIN p)

\* C22: sendFiles consumes one outcome per file it has sent, before any byte
\* of the file after it goes out, and the outcome it reports for the i-th
\* selected file is the i-th outcome the receiver sent, whose id is the id
\* of that file.
C22_OneOutcomePerFile ==
  LET log == obs.sent["sender"]
      files == snd.fileDtoList
      outcomes == OutcomesIn(obs.sent["receiver"])
      headers == {k \in 1..Len(log) : IsHeader(log[k])}
  IN /\ Len(OutcomeReports) + Len(OutcomesIn(stream["sender"].queue))
          + Len(OutcomesIn(dataChannel["receiver"].buffer)) = Len(outcomes)
     /\ Len(outcomes) <= Len(files)
     /\ \A i \in 1..Len(outcomes) : outcomes[i].json.id = files[i].id
     /\ \A i \in 1..Len(OutcomeReports) :
          /\ OutcomeReports[i].id = files[i].id
          /\ OutcomeReports[i].success = outcomes[i].json.success
     /\ \A k \in headers :
          BlocksAfter(log, k) > 0 =>
            Len(OutcomeReports) >= Cardinality({h \in headers : h < k})
     /\ snd.pc \in {"read", "backpressure", "fileStatus"} => Len(OutcomeReports) = snd.i
     /\ snd.pc = "done" => Len(OutcomeReports) = Len(files)

\* sendFiles has reported the outcomes of two files, each under the id the
\* receiver gave in its outcome
C22_Witness ==
  /\ snd.pc = "done"
  /\ Len(OutcomeReports) = 2
  /\ OutcomeReports[1].id = "0" /\ OutcomeReports[2].id = "1"
  /\ OutcomesIn(obs.sent["receiver"])[2].json.id = "1"

\* C23: in a session every id of the manifest is the id of at most one
\* header the sender puts on the channel, every header carries an id of the
\* manifest, and every block of file bytes follows the header of its file,
\* with no other header between them.
C23_HeaderOncePerId ==
  LET log == obs.sent["sender"]
      headers == {k \in 1..Len(log) : IsHeader(log[k])}
  IN /\ \A k \in headers : log[k].json.id \in ManifestIds
     /\ \A id \in ManifestIds : Cardinality({k \in headers : log[k].json.id = id}) <= 1
     /\ \A p \in 1..Len(log) :
          IsFileBlock(log[p]) =>
            \E k \in headers :
              /\ k < p
              /\ log[k].json.id = log[p].data[1].src.file
              /\ \A j \in (k + 1)..(p - 1) : log[j].kind = "bin"

\* the headers of two files are on the channel, each followed by blocks of
\* its file
C23_Witness ==
  LET log == obs.sent["sender"]
  IN \E k1, k2 \in 1..Len(log) :
       /\ k1 < k2 /\ IsHeader(log[k1]) /\ IsHeader(log[k2])
       /\ log[k1].json.id # log[k2].json.id
       /\ BlocksAfter(log, k1) > 0 /\ BlocksAfter(log, k2) > 0

(***************************************************************************)
(* Claims about receiveFiles facing any initiator.                         *)
(***************************************************************************)
\* the initiator has sent a header for this id that carries the token the
\* receiver minted for it
AcceptableHeaderSent(id) ==
  /\ id \in DOMAIN rcv.selectedFilesTokens
  /\ \E k \in 1..Len(obs.sent["sender"]) :
       /\ IsHeader(obs.sent["sender"][k])
       /\ obs.sent["sender"][k].json.id = id
       /\ obs.sent["sender"][k].json.token = rcv.selectedFilesTokens[id]

\* C24: a file is saved, reported with success, or has bytes accumulated
\* for it, only when a header was received that carries its id, an id the
\* receiver selected, and the token the receiver minted for that id.
C24_OnlyTokenedFilesAccepted ==
  /\ \A j \in 1..Len(obs.saved) : AcceptableHeaderSent(obs.saved[j].id)
  /\ \A j \in 1..Len(OutcomesIn(obs.sent["receiver"])) :
       AcceptableHeaderSent(OutcomesIn(obs.sent["receiver"])[j].json.id)
  /\ (rcv.fileState.set /\ rcv.fileState.chunks # <<>>) =>
       AcceptableHeaderSent(rcv.fileState.id)

\* a file was saved although every header the initiator sent carried a token
\* the receiver never minted
C24_SavedWithoutToken ==
  /\ Len(obs.saved) > 0
  /\ \A k \in 1..Len(obs.sent["sender"]) :
       IsHeader(obs.sent["sender"][k]) => obs.sent["sender"][k].json.token = UnmintedToken

\* the part of C24 the code keeps: no file is saved and no success is sent
\* for an id the receiver did not select
C24_UnselectedNeverSaved ==
  /\ \A j \in 1..Len(obs.saved) : obs.saved[j].id \in DOMAIN rcv.selectedFilesTokens
  /\ \A j \in 1..Len(OutcomesIn(obs.sent["receiver"])) :
       OutcomesIn(obs.sent["receiver"])[j].json.id \in DOMAIN rcv.selectedFilesTokens

(***************************************************************************)
(* Claims about the validation of the peer's nonce.                        *)
(***************************************************************************)
\* C25: a side accepts the peer's nonce exactly when the decoded nonce has
\* 16 to 128 bytes; a side that rejects it sends nothing more and computes
\* no nonce material, so it sends no token; the nonces a side generates
\* have 32 bytes and pass the peer's validation.
C25_NonceLengthValidated ==
  /\ hs.pc = "responderThrew" =>
       /\ Len(hs.initiatorNonce) < 16 \/ Len(hs.initiatorNonce) > 128
       /\ hs.toInitiator = <<>>
       /\ hs.responderMaterial = <<>>
  /\ hs.pc \in {"answered", "exchanged", "initiatorThrew"} =>
       Len(hs.initiatorNonce) >= 16 /\ Len(hs.initiatorNonce) <= 128
  /\ hs.pc = "initiatorThrew" =>
       /\ Len(hs.responderNonce) < 16 \/ Len(hs.responderNonce) > 128
       /\ hs.initiatorMaterial = <<>>
  /\ hs.pc = "exchanged" =>
       Len(hs.responderNonce) >= 16 /\ Len(hs.responderNonce) <= 128
  /\ \A seed \in 1..MaxNonceSeeds :
       /\ Len(generateNonce(seed)) = 32
       /\ receiveNonceError(StrMsg([nonce |-> encodeBase64(generateNonce(seed))])) = "none"

\* the responder accepted a nonce of 128 bytes and the initiator rejected
\* one of 15 bytes
C25_Witness ==
  /\ hs.pc = "initiatorThrew"
  /\ Len(hs.initiatorNonce) = 128
  /\ Len(hs.responderNonce) = 15

\* C25 in a session: receiveFiles that rejected the initiator's nonce has
\* sent nothing, and it rejects exactly the nonces outside 16 to 128 bytes
C25_RejectedNonceNoToken ==
  /\ (rcv.pc = "threw" /\ rcv.error = "Invalid remote nonce") =>
       /\ obs.sent["receiver"] = <<>>
       /\ rcv.localToken = <<>>
  /\ rcv.remoteNonce # <<>> => Len(rcv.remoteNonce) >= 16 /\ Len(rcv.remoteNonce) <= 128

(***************************************************************************)
(* Claims about the end of the PIN exchange.                               *)
(***************************************************************************)
\* the status of a message, sent as a string or as the chunks of a string
StatusOf(m) ==
  IF m.kind = "str" THEN Get(m.json, "status")
  ELSE IF m.data # <<>> /\ "type" \in DOMAIN m.data[1].src
    THEN Get(m.data[1].src.json, "status")
  ELSE Undefined

\* the side has sent TOO_MANY_ATTEMPTS and left the wait that follows it
RefusedPinAndReturned(side) ==
  /\ pcOf(side) = "returned"
  /\ \E k \in 1..Len(obs.sent[side]) : StatusOf(obs.sent[side][k]) = "TOO_MANY_ATTEMPTS"

\* C26: a side that has sent TOO_MANY_ATTEMPTS and waited for its outbound
\* buffer to drain has closed its end of the data channel.
C26_TooManyAttemptsCloses ==
  \A side \in Sides :
    RefusedPinAndReturned(side) =>
      /\ dataChannel[side].bufferedAmount = 0
      /\ dataChannel[side].state = "closed"

\* the part of C26 the code keeps: the side returns only once its buffer is
\* empty
C26_TooManyAttemptsFlushed ==
  \A side \in Sides : RefusedPinAndReturned(side) => dataChannel[side].bufferedAmount = 0

\* the side's prompt for the PIN was dismissed
PinDismissed(side) ==
  IF side = "sender" THEN snd.pc = "threw" /\ snd.error = "PIN required"
  ELSE rcv.pc = "threw" /\ rcv.error = "PIN required"

\* a message that carries the file list, a header or bytes of a file
IsFileData(m) ==
  \/ IsHeader(m)
  \/ IsFileBlock(m)
  \/ m.kind = "bin" /\ m.data # <<>> /\ "type" \in DOMAIN m.data[1].src
       /\ "files" \in DOMAIN m.data[1].src.json

\* C27: the step in which onPin yields no value sends nothing and closes
\* the side's end of the data channel; from then on the side sends nothing,
\* its end stays closed, and it has neither sent nor received a file list,
\* a header or file bytes, and saves no file.
C27_DismissedPinCloses ==
  [][\A side \in Sides :
       /\ (pcOf(side) = "onPin" /\ PinDismissed(side)') =>
            /\ obs'.sent[side] = obs.sent[side]
            /\ dataChannel'[side].state = "closed"
       /\ PinDismissed(side) =>
            /\ dataChannel[side].state = "closed" /\ dataChannel'[side].state = "closed"
            /\ obs'.sent[side] = obs.sent[side]
            /\ obs'.saved = obs.saved
            /\ \A k \in 1..Len(obs.sent[side]) : ~IsFileData(obs.sent[side][k])
            /\ side = "receiver" => rcv.fileList = <<>> /\ rcv' = rcv
            /\ side = "sender" => snd' = snd]_vars

\* the receiver passed no PIN to the initiator: its prompt was dismissed
\* after the initiator had passed the receiver's own PIN
C27_Witness ==
  /\ PinDismissed("receiver")
  /\ env.pin.receiver.enabled /\ env.pin.sender.enabled
  /\ dataChannel["receiver"].state = "closed"
  /\ dataChannel["sender"].state = "open"

\* C28: a session the user declined ends without an error: sendFiles or
\* receiveFiles whose PIN prompt yielded no value, and sendFiles that
\* declined a pairing, return to the caller instead of throwing, and no
\* file is reported as failed.
C28_DeclinedSessionEndsCleanly ==
  /\ \A side \in Sides : ~PinDismissed(side)
  /\ snd.pairDeclined => snd.pc # "threw"
  /\ \A side \in Sides : \A k \in 1..Len(obs.progress[side]) :
       "success" \in DOMAIN obs.progress[side][k] => obs.progress[side][k].success = TRUE

(***************************************************************************)
(* Claims about messages of an unexpected shape.                           *)
(***************************************************************************)
\* the side left its function on a binary message where it awaited a string,
\* or on a block while no file was open
ThrewOnShape(side) ==
  IF side = "sender"
    THEN snd.pc = "threw" /\ snd.error = "Expected string"
    ELSE rcv.pc = "threw" /\ rcv.error \in {"Expected string", "Expected file state"}

\* C29: a side that received a binary message where it awaited a string
\* (the nonce, the token, a PIN, a file outcome), or a block while no file
\* was open, has closed its end of the data channel.
C29_UnexpectedShapeCloses ==
  \A side \in Sides : ThrewOnShape(side) => dataChannel[side].state = "closed"

\* the part of C29 the code keeps: the side stops; what it had sent when
\* it threw is all it ever sends
C29_UnexpectedShapeStops ==
  [][\A side \in Sides : ThrewOnShape(side) => obs'.sent[side] = obs.sent[side]]_vars

(***************************************************************************)
(* Claims about sendFiles facing any responder.                            *)
(***************************************************************************)
\* the step in which sendFiles takes the outcome of the file it has sent
OutcomeStep ==
  /\ snd.pc = "fileStatus"
  /\ stream["sender"].queue # <<>>
  /\ IsOutcome(Head(stream["sender"].queue))
  /\ stream'["sender"].queue = Tail(stream["sender"].queue)

\* C30: whatever the success of the outcome sendFiles takes for a file, it
\* reports the outcome, success and error, under the id of that file and
\* goes on: it starts the next selected file, or after the last one it
\* returns with its end of the channel closed, the headers and all bytes of
\* every selected file and the delimiter, as last message, having been sent.
C30_FailedFileDoesNotAbort ==
  [][OutcomeStep =>
       LET m == Head(stream["sender"].queue)
           file == snd.fileDtoList[snd.i + 1]
           log == obs'.sent["sender"]
           headers == {k \in 1..Len(log) : IsHeader(log[k])}
       IN /\ obs'.progress["sender"] =
               Append(obs.progress["sender"],
                      [id |-> file.id, curr |-> file.size,
                       success |-> m.json.success, error |-> Get(m.json, "error")])
          /\ IF snd.i + 1 < Len(snd.fileDtoList)
               THEN /\ snd'.pc = "read" /\ snd'.i = snd.i + 1
                    /\ dataChannel'["sender"].state = "open"
               ELSE /\ snd'.pc = "done"
                    /\ dataChannel'["sender"].state = "closed"
                    /\ IsDelimiter(log[Len(log)])
                    /\ {log[k].json.id : k \in headers} =
                         {snd.fileDtoList[j].id : j \in 1..Len(snd.fileDtoList)}
                    /\ \A k \in headers :
                         /\ BlocksArePrefix(log, k, log[k].json.id)
                         /\ BlocksLength(log, k) = fileSize(log[k].json.id)]_vars

\* sendFiles has completed a session of two files of which the responder
\* reported the first as failed
C30_Witness ==
  /\ snd.pc = "done"
  /\ Len(OutcomeReports) = 2
  /\ OutcomeReports[1].success = FALSE /\ OutcomeReports[1].error = PeerError
  /\ OutcomeReports[2].success = TRUE
  /\ dataChannel["sender"].state = "closed"

\* C29 on the side of sendFiles: it has thrown on a binary message and its
\* end of the channel is open
C29_SenderLeftOpen == ThrewOnShape("sender") /\ dataChannel["sender"].state = "open"

\* C28, the declined pairing: sendFiles has answered PAIR with PAIR_DECLINED
\* and returned on the reply
C28_PairDeclinedReturned == snd.pairDeclined /\ snd.pc = "returned"

(***************************************************************************)
(* Claims about the pairing round of sendFiles.                            *)
(***************************************************************************)
\* the step in which sendFiles has read one whole answer to its file list
FileListResponseStep ==
  /\ snd.pc = "fileListResponse"
  /\ stream["sender"].queue # <<>>
  /\ Head(stream["sender"].queue).kind = "str"
  /\ stream'["sender"].queue = Tail(stream["sender"].queue)
  /\ ~parseThrows(arrayBufferToString(snd.chunks))

\* the PAIR_DECLINED messages sendFiles has sent
PairDeclinedSent ==
  {k \in 1..Len(obs.sent["sender"]) : StatusOf(obs.sent["sender"][k]) = "PAIR_DECLINED"}

\* C31: the first answer PAIR makes sendFiles send PAIR_DECLINED, once, and
\* read one more answer; of that answer, OK with tokens starts the transfer
\* with those tokens and every other status, PAIR too, makes sendFiles
\* return having sent nothing more; after that return no header and no file
\* bytes are ever sent, and PAIR_DECLINED is never sent twice.
C31_PairDeclinedOnce ==
  [][/\ Cardinality(PairDeclinedSent') <= 1
     /\ FileListResponseStep =>
          LET response == parseJson(arrayBufferToString(snd.chunks))
              status == Get(response, "status")
              sent == obs.sent["sender"]
              sent1 == obs'.sent["sender"]
          IN /\ (status = "PAIR" /\ ~snd.pairDeclined) =>
                  /\ sent1 = Append(sent, StrMsg([status |-> "PAIR_DECLINED"]))
                  /\ snd'.pairDeclined /\ snd'.pc = "fileListResponse"
                  /\ snd'.chunks = <<>>
             /\ (snd.pairDeclined /\ status = "OK" /\ "files" \in DOMAIN response
                   /\ DOMAIN response.files # {}) =>
                  /\ snd'.fileTokens = response.files
                  /\ Len(sent1) > Len(sent)
                  /\ sent1[Len(sent) + 1] =
                       StrMsg([id |-> snd'.fileDtoList[1].id,
                               token |-> response.files[snd'.fileDtoList[1].id]])
             /\ (snd.pairDeclined /\ status # "OK") =>
                  /\ snd'.pc = "returned"
                  /\ sent1 = sent
                  /\ Cardinality(PairDeclinedSent') = 1
     /\ (snd.pc = "returned" /\ snd.pairDeclined) =>
          /\ snd'.pc = "returned"
          /\ obs'.sent["sender"] = obs.sent["sender"]
          /\ \A k \in 1..Len(obs.sent["sender"]) :
               ~IsHeader(obs.sent["sender"][k]) /\ ~IsFileBlock(obs.sent["sender"][k])]_vars

\* sendFiles has declined a pairing, got OK on the one further answer and
\* sent the header of the first selected file
C31_Witness ==
  /\ snd.pairDeclined
  /\ snd.pc \in {"read", "fileStatus", "done"}
  /\ \E k \in 1..Len(obs.sent["sender"]) : IsHeader(obs.sent["sender"][k])

\* C31, the second PAIR: sendFiles has returned on a second PAIR
C31_SecondPairReturned ==
  /\ snd.pairDeclined /\ snd.pc = "returned"
  /\ Len(SelectSeq(obs.sent["receiver"], LAMBDA m : StatusOf(m) = "PAIR")) = 2

(***************************************************************************)
(* Claims about the delimiter in the receive loop.                         *)
(***************************************************************************)
\* the step in which the receive loop takes the delimiter
DelimiterStep ==
  /\ rcv.pc = "chunk"
  /\ stream["receiver"].queue # <<>>
  /\ IsDelimiter(Head(stream["receiver"].queue))
  /\ stream'["receiver"].queue = Tail(stream["receiver"].queue)

\* C32: a delimiter the receive loop takes, a file being open or not, ends
\* the blocks: it is not made the header of a file, so no file is open
\* after the step, and the loop is left.
C32_DelimiterNeverAHeader ==
  [][DelimiterStep => ~rcv'.fileState.set /\ rcv'.pc # "chunk"]_vars

\* C32 where it holds: with a file open and selected the delimiter closes
\* the file and ends the loop
C32_DelimiterEndsOpenFile ==
  [][(DelimiterStep /\ rcv.fileState.set
        /\ rcv.fileState.id \in DOMAIN rcv.selectedFilesMap) =>
       ~rcv'.fileState.set /\ rcv'.pc = "waitBufferEmptyBreak"]_vars

\* C32, the outcome in the code: the delimiter taken with no file open has
\* gone through JSON.parse and opened a file whose id is header.id of the
\* number 0, that is undefined
C32_DelimiterOpenedFile ==
  /\ rcv.pc = "chunk" /\ rcv.fileState.set /\ rcv.fileState.id = Undefined
  /\ obs.saved = <<>>
  /\ \E k \in 1..Len(obs.sent["sender"]) : IsDelimiter(obs.sent["sender"][k])

(***************************************************************************)
(* Claims about the reader handles of a session's stream.                  *)
(***************************************************************************)
\* the positions at which a side holds a reader: it awaits a message, or it
\* is inside the chunk loop awaiting the buffer before the break
HoldsReader(side) ==
  IF side = "sender"
    THEN snd.pc \in {"receiveNonce", "tokenResponse", "pinResponse", "remotePin",
                     "fileListResponse", "fileStatus"}
    ELSE rcv.pc \in {"receiveNonce", "remoteToken", "remotePin", "pinSendingResponse",
                     "pinResponse", "chunk", "waitBufferEmptyBreak"}

\* C33: no getReader of a session finds its stream locked, that is, every
\* handle is released before the next one is created; and a side holds a
\* reader only while it awaits a message or runs the chunk loop: at every
\* other position, a return or an exception included, its stream is
\* unlocked.
C33_OneReaderAtATime ==
  \A side \in Sides :
    /\ ~stream[side].threw
    /\ stream[side].locked => HoldsReader(side)

\* both sides have gone through a PIN loop, the file list and the chunk
\* phase and have returned with their streams unlocked
C33_Witness ==
  /\ snd.pc = "done" /\ rcv.pc = "done"
  /\ env.pin.sender.enabled /\ env.pin.receiver.enabled
  /\ obs.saved # <<>>
  /\ \A side \in Sides : ~stream[side].locked

(***************************************************************************)
(* Claims about the sizes of the messages sent in chunks.                  *)
(***************************************************************************)
\* the blocks a file of the given size is sent in
BlocksOfSize(size) == (size + CHUNK_SIZE - 1) \div CHUNK_SIZE

\* C34: every binary message sent, a chunk of a text or a block of a file,
\* has from 1 to CHUNK_SIZE bytes; a file block followed by another block
\* has exactly CHUNK_SIZE bytes; a file whose blocks have ended was sent in
\* the least number of blocks that hold it, none for an empty file and no
\* remainder for a multiple of CHUNK_SIZE; and a block shorter than
\* CHUNK_SIZE is sent only in the step in which the file's stream has ended.
C34_BlockSizes ==
  [][LET log == obs'.sent["sender"]
         before == Len(obs.sent["sender"])
     IN /\ \A side \in Sides : \A k \in 1..Len(obs'.sent[side]) :
             obs'.sent[side][k].kind = "bin" =>
               /\ byteLength(obs'.sent[side][k].data) > 0
               /\ byteLength(obs'.sent[side][k].data) <= CHUNK_SIZE
        /\ \A k \in 1..(Len(log) - 1) :
             (IsFileBlock(log[k]) /\ IsFileBlock(log[k + 1])) =>
               byteLength(log[k].data) = CHUNK_SIZE
        /\ \A k \in 1..Len(log) :
             (IsHeader(log[k]) /\ BlocksEnded(log, k)) =>
               BlocksAfter(log, k) = BlocksOfSize(fileSize(log[k].json.id))
        /\ \A k \in (before + 1)..Len(log) :
             (IsFileBlock(log[k]) /\ byteLength(log[k].data) < CHUNK_SIZE) =>
               /\ snd.pc = "read" /\ snd.pos = currentFile(State).size
               /\ snd'.pc = "fileStatus"]_vars

\* a file of two full blocks and one byte has gone out in three blocks, the
\* last of one byte, and an empty file in none
C34_Witness ==
  LET log == obs.sent["sender"]
  IN /\ snd.pc = "done"
     /\ \E k \in 1..Len(log) :
          /\ IsHeader(log[k]) /\ BlocksAfter(log, k) = 0 /\ fileSize(log[k].json.id) = 0
     /\ \E k \in 1..Len(log) :
          /\ IsHeader(log[k]) /\ BlocksAfter(log, k) = 3
          /\ byteLength(log[k + 3].data) = 1

\* C34, the texts: a file list of CHUNK_SIZE + 1 bytes has gone out in a
\* chunk of CHUNK_SIZE bytes and one of 1 byte
C34_TextInChunks ==
  LET log == obs.sent["sender"]
  IN \E k \in 1..(Len(log) - 1) :
       /\ log[k].kind = "bin" /\ ~IsFileBlock(log[k]) /\ byteLength(log[k].data) = CHUNK_SIZE
       /\ log[k + 1].kind = "bin" /\ byteLength(log[k + 1].data) = 1

(***************************************************************************)
(* Claims about the roster under any sequence of relay messages.           *)
(***************************************************************************)
\* the step in which socket.onmessage takes a message
DeliveryStep == relay'.socket.delivered = relay.socket.delivered + 1

\* the roster after a message, as the protocol names the messages
RosterAfter(peers, data) ==
  CASE data.type = "hello" -> data.peers
    [] data.type = "joined" -> Append(peers, data.peer)
    [] data.type = "left" -> SelectSeq(peers, LAMBDA p : p.id # data.peerId)
    [] data.type = "update" ->
         [k \in 1..Len(peers) |-> IF peers[k].id = data.peer.id THEN data.peer ELSE peers[k]]
    [] OTHER -> peers

\* C35: every relay message takes the roster to the roster the protocol
\* gives for it: hello replaces it, joined appends the peer, left removes
\* the entries of the id, update replaces the entry of the id in place,
\* offer and answer leave it.
C35_RosterIsFold ==
  [][(DeliveryStep /\ relay'.socket.received.type # "join") =>
       relay'.peers = RosterAfter(relay.peers, relay'.socket.received)]_vars

\* C35 with the type the store tests: the same with "join" for "joined"
C35_RosterIsFoldOfJoin ==
  [][DeliveryStep =>
       LET data == relay'.socket.received
       IN relay'.peers =
            IF data.type = "join" THEN Append(relay.peers, data.peer)
            ELSE IF data.type = "joined" THEN relay.peers
            ELSE RosterAfter(relay.peers, data)]_vars

\* C35, the outcome in the code: a joined message was delivered after hello
\* and the roster is empty
C35_JoinedIgnored ==
  /\ relay.socket.hello /\ relay.socket.delivered = 2
  /\ relay.socket.received.type = "joined"
  /\ relay.peers = <<>>

(***************************************************************************)
(* Claims about waitForAnswer.                                             *)
(***************************************************************************)
\* C39: the promise of a call waitForAnswer(s) is resolved only with an
\* answer of sessionId s and at most once, and the delivery of an answer of
\* sessionId s resolves every call waitForAnswer(s) not yet resolved,
\* whatever calls were registered in between.
C39_AnswerResolvesItsCall ==
  [][/\ \A k \in 1..Len(relay'.waits) :
          /\ Len(relay'.waits[k].resolved) <= 1
          /\ \A j \in 1..Len(relay'.waits[k].resolved) :
               /\ relay'.waits[k].resolved[j].type = "answer"
               /\ relay'.waits[k].resolved[j].sessionId = relay'.waits[k].sessionId
     /\ (DeliveryStep /\ relay'.socket.received.type = "answer") =>
          \A k \in 1..Len(relay.waits) :
            relay.waits[k].sessionId = relay'.socket.received.sessionId =>
              relay'.waits[k].resolved # <<>>]_vars

\* C39 without its last part: a promise is resolved only with an answer of
\* its sessionId and at most once, and the answer of the call registered
\* last resolves it
C39_LastCallResolved ==
  [][/\ \A k \in 1..Len(relay'.waits) :
          /\ Len(relay'.waits[k].resolved) <= 1
          /\ \A j \in 1..Len(relay'.waits[k].resolved) :
               /\ relay'.waits[k].resolved[j].type = "answer"
               /\ relay'.waits[k].resolved[j].sessionId = relay'.waits[k].sessionId
     /\ (/\ DeliveryStep /\ relay'.socket.received.type = "answer"
         /\ relay.socket.onAnswer # Null
         /\ relay.socket.onAnswer.sessionId = relay'.socket.received.sessionId) =>
          relay'.waits[relay.socket.onAnswer.call].resolved = <<relay'.socket.received>>]_vars

\* C39, the outcome in the code: two calls were registered, the answers of
\* both sessions were delivered, and the promise of the first call is
\* unresolved
C39_FirstCallNeverResolved ==
  /\ Len(relay.waits) = 2
  /\ relay.waits[1].resolved = <<>> /\ relay.waits[2].resolved # <<>>
  /\ relay.socket.delivered = 2
  /\ relay.socket.received = [type |-> "answer", sessionId |-> relay.waits[1].sessionId]

(***************************************************************************)
(* Claims about setupConnection.                                           *)
(***************************************************************************)
\* C40: whenever and however often setupConnection is called, connectionLoop
\* is started at most once and at most one WebSocket is connecting or open;
\* a call after the first changes nothing but the client info kept, the
\* socket of the current attempt keeps the info it was created with, and
\* every new attempt takes the info kept at that time.
C40_OneConnectionLoop ==
  [][/\ relay'.loops <= 1
     /\ relay'.live <= 1
     /\ (relay.loopStarted /\ relay'.proposingClient # relay.proposingClient) =>
          relay' = [relay EXCEPT !.proposingClient = relay'.proposingClient]
     /\ IF relay'.attempts = relay.attempts
          THEN relay'.socket.info = relay.socket.info
          ELSE relay'.socket.info = relay'.proposingClient]_vars

\* setupConnection was called with another client info while the first
\* socket was held, and after a close the next attempt uses the new info
C40_Witness ==
  /\ relay.loops = 1 /\ relay.attempts = 2 /\ relay.live = 1
  /\ relay.attempt.after = "close"
  /\ relay.socket.info = [alias |-> "b"]
  /\ relay.proposingClient = [alias |-> "b"]

(***************************************************************************)
(* Claims about a selection of no file.                                    *)
(***************************************************************************)
\* sendFiles has taken a file list response without tokens
EmptySelectionTaken ==
  /\ snd.fileDtoList = <<>>
  /\ snd.skippedFiles = fileIds(Manifest)
  /\ snd.pc \notin {"start", "idle", "foreign"}

\* C36: once sendFiles has taken a reply without tokens it has reported
\* every id of the file list as skipped, has sent no header and no file
\* bytes, and has returned without an exception, its end of the channel
\* closed; receiveFiles does not stay in its loop awaiting a message.
C36_EmptySelectionEndsCleanly ==
  EmptySelectionTaken =>
    /\ obs.onFilesSkip = <<fileIds(Manifest)>>
    /\ \A k \in 1..Len(obs.sent["sender"]) :
         ~IsHeader(obs.sent["sender"][k]) /\ ~IsFileBlock(obs.sent["sender"][k])
    /\ snd.pc \in {"done", "returned"}
    /\ dataChannel["sender"].state = "closed"

\* C36, the part the code keeps: the skipped ids are reported and no header
\* and no file bytes are sent
C36_EmptySelectionSendsNothing ==
  EmptySelectionTaken =>
    /\ obs.onFilesSkip = <<fileIds(Manifest)>>
    /\ \A k \in 1..Len(obs.sent["sender"]) :
         ~IsHeader(obs.sent["sender"][k]) /\ ~IsFileBlock(obs.sent["sender"][k])

\* C36, the outcome in the code: sendFiles has thrown on firstFileDto.id with
\* its channel open, and receiveFiles awaits a message in its chunk loop
\* with nothing in flight
C36_EmptySelectionThrows ==
  /\ EmptySelectionTaken
  /\ snd.pc = "threw" /\ dataChannel["sender"].state = "open"
  /\ rcv.pc = "chunk" /\ dataChannel["receiver"].state = "open"
  /\ stream["receiver"].queue = <<>> /\ dataChannel["sender"].buffer = <<>>

(***************************************************************************)
(* Claims about the termination of a session without PIN.                  *)
(***************************************************************************)
\* the ids receiveFiles asked for
SelectedIds == DOMAIN rcv.selectedFilesMap

\* side has reported file id as finished with success
ReportedSuccess(side, id) ==
  \E k \in 1..Len(obs.progress[side]) :
    LET p == obs.progress[side][k]
    IN "success" \in DOMAIN p /\ p.id = id /\ p.success = TRUE

\* both functions have returned normally, both ends of the channel are
\* closed and every selected file is reported finished on both sides
SessionFinished ==
  /\ snd.pc = "done" /\ rcv.pc = "done"
  /\ \A side \in Sides : dataChannel[side].state = "closed"
  /\ SelectedIds # {}
  /\ \A id \in SelectedIds : \A side \in Sides : ReportedSuccess(side, id)

\* both functions await a message and none is queued or in flight
BothSuspended ==
  /\ \A side \in Sides : Suspended(side)
  /\ \A side \in Sides : dataChannel[side].buffer = <<>>

\* C37: with no PinConfig on either side and a non-empty selection, every
\* run of sendFiles against receiveFiles over a channel that delivers what
\* is buffered ends with both functions returned, both ends of the channel
\* closed and every selected file reported finished with success on both
\* sides, and in no state do both sides await a message with none in flight.
C37_NoPinSessionTerminates == []~BothSuspended /\ <>[]SessionFinished

\* C37, the case: a session of two selected files has ended
C37_Witness ==
  /\ SessionFinished
  /\ Cardinality(SelectedIds) = 2
  /\ ~env.pin["sender"].enabled /\ ~env.pin["receiver"].enabled

(***************************************************************************)
(* Claims about what a configured PIN lets through.                        *)
(***************************************************************************)
\* the responder has sent the OK that ends its PIN exchange
ResponderPinOk ==
  \E k \in 1..Len(obs.sent["receiver"]) :
    LET m == obs.sent["receiver"][k]
    IN /\ m.kind = "str"
       /\ "status" \in DOMAIN m.json /\ m.json.status = "OK"

\* C38: a side with a PinConfig has sent OK (the initiator: OK with its file
\* list) only if it has read at least one PIN message and the pin it read
\* last is the configured pin, whatever the configured pin and maxTries.
C38_OkOnlyAfterPin ==
  /\ (env.pin["receiver"].enabled /\ ResponderPinOk) =>
       rcv.pinTry >= 1 /\ rcv.remotePin = env.pin["receiver"].pin
  /\ (env.pin["sender"].enabled /\ ManifestSent) =>
       snd.pinTry >= 1 /\ snd.remotePin = env.pin["sender"].pin

\* C38, the part the code keeps: a side whose configured pin is not the
\* empty string sends OK only after it has read that pin, also with
\* maxTries 0, where it sends no OK at all
C38_OkOnlyAfterNonEmptyPin ==
  /\ (env.pin["receiver"].enabled /\ env.pin["receiver"].pin # "" /\ ResponderPinOk) =>
       /\ rcv.pinTry >= 1 /\ rcv.remotePin = env.pin["receiver"].pin
       /\ env.pin["receiver"].maxTries >= 1
  /\ (env.pin["sender"].enabled /\ env.pin["sender"].pin # "" /\ ManifestSent) =>
       /\ snd.pinTry >= 1 /\ snd.remotePin = env.pin["sender"].pin
       /\ env.pin["sender"].maxTries >= 1

\* C38, the outcome in the code: with the empty string configured on both
\* sides and maxTries 0 the responder has sent OK and the initiator its
\* file list, and neither has read a PIN message
C38_EmptyPinLetsThrough ==
  /\ env.pin["receiver"] = PinConfig("", 0) /\ env.pin["sender"] = PinConfig("", 0)
  /\ ResponderPinOk /\ ManifestSent
  /\ rcv.pinTry = 0 /\ snd.pinTry = 0

====
